---- MODULE Spec2Model ----
(***************************************************************************)
(* A model of the package-version tool server: the per-ecosystem resolvers *)
(* (internal/handlers), the shared sync.Map cache they read and write, and *)
(* the TTL cache (internal/cache).                                         *)
(*                                                                         *)
(* Strings the program computes on (names, versions) are sequences of byte *)
(* values, so that strings.ToLower, sort.Strings, strings.Split and the    *)
(* like are modelled by what they do.  Strings the program only copies     *)
(* (registry tags, skip reasons, error texts) are TLA+ strings.            *)
(***************************************************************************)
EXTENDS Integers, Sequences, FiniteSets, TLC

\* The largest number of dependency entries in one request.
MaxDeps == 2

\* The longest text CleanVersion is applied to.
MaxCleanLen == 3

\* ------------------------------------------------------------------------
\* String literals, as the bytes of their UTF-8 text.
Lit(s) ==
    CASE s = "" -> <<>>
      [] s = "B" -> <<66>>
      [] s = "a" -> <<97>>
      [] s = "g" -> <<103>>
      [] s = "x" -> <<120>>
      [] s = "/" -> <<47>>
      [] s = ":" -> <<58>>
      [] s = "@" -> <<64>>
      [] s = ")" -> <<41>>
      [] s = " (" -> <<32, 40>>
      [] s = "1.9.0" -> <<49, 46, 57, 46, 48>>
      [] s = "1.10.0" -> <<49, 46, 49, 48, 46, 48>>
      [] s = "2.0.0" -> <<50, 46, 48, 46, 48>>
      [] s = "^1.2.0" -> <<94, 49, 46, 50, 46, 48>>
      [] s = "unknown" -> <<117, 110, 107, 110, 111, 119, 110>>
      [] s = "sdk dependency" ->
            <<115, 100, 107, 32, 100, 101, 112, 101, 110, 100, 101, 110, 99, 121>>
      [] s = "special dependency" ->
            <<115, 112, 101, 99, 105, 97, 108, 32, 100, 101, 112, 101, 110, 100,
              101, 110, 99, 121>>
      [] s = "replaced by " -> <<114, 101, 112, 108, 97, 99, 101, 100, 32, 98, 121, 32>>
      [] s = " (dev)" -> <<32, 40, 100, 101, 118, 41>>
      [] s = " (optional:" -> <<32, 40, 111, 112, 116, 105, 111, 110, 97, 108, 58>>
      [] s = "test" -> <<116, 101, 115, 116>>
      [] s = "# c" -> <<35, 32, 99>>
      [] s = "B==1.2.0" -> <<66, 61, 61, 49, 46, 50, 46, 48>>
      [] s = "a b!" -> <<97, 32, 98, 33>>
      [] s = "a-b" -> <<97, 45, 98>>
      [] s = "flutter" -> <<102, 108, 117, 116, 116, 101, 114>>
      [] s = "dart" -> <<100, 97, 114, 116>>
      [] s = "flutter:" -> <<102, 108, 117, 116, 116, 101, 114, 58>>
      [] s = "dart:" -> <<100, 97, 114, 116, 58>>
      [] s = "sdk:" -> <<115, 100, 107, 58>>
      [] s = "sdk:x" -> <<115, 100, 107, 58, 120>>
      [] s = "flutter_test" -> <<102, 108, 117, 116, 116, 101, 114, 95, 116, 101, 115, 116>>
      [] s = "flutter_driver" ->
            <<102, 108, 117, 116, 116, 101, 114, 95, 100, 114, 105, 118, 101, 114>>
      [] s = "sdk" -> <<115, 100, 107>>
      [] s = "git:" -> <<103, 105, 116, 58>>
      [] s = "path:" -> <<112, 97, 116, 104, 58>>
      [] s = "path: " -> <<112, 97, 116, 104, 58, 32>>
      [] s = "git: " -> <<103, 105, 116, 58, 32>>
      [] s = "../x" -> <<46, 46, 47, 120>>
      [] s = "github.com" -> <<103, 105, 116, 104, 117, 98, 46, 99, 111, 109>>
      [] s = "https://github.com/o/B" ->
            <<104, 116, 116, 112, 115, 58, 47, 47, 103, 105, 116, 104, 117, 98, 46,
              99, 111, 109, 47, 111, 47, 66>>
      [] s = "https://gitlab.com/o/a" ->
            <<104, 116, 116, 112, 115, 58, 47, 47, 103, 105, 116, 108, 97, 98, 46,
              99, 111, 109, 47, 111, 47, 97>>
      [] s = "laravel/a" -> <<108, 97, 114, 97, 118, 101, 108, 47, 97>>
      [] s = "Vendor/B" -> <<86, 101, 110, 100, 111, 114, 47, 66>>
      [] s = "invalidname" -> <<105, 110, 118, 97, 108, 105, 100, 110, 97, 109, 101>>
      [] s = "#" -> <<35>>
      [] s = ".0.0" -> <<46, 48, 46, 48>>
      [] s = "1.0.0" -> <<49, 46, 48, 46, 48>>
      [] s = "o" -> <<111>>
      [] s = "actions" -> <<97, 99, 116, 105, 111, 110, 115>>
      [] s = "checkout" -> <<99, 104, 101, 99, 107, 111, 117, 116>>
      [] s = "latest" -> <<108, 97, 116, 101, 115, 116>>
      [] s = "^1" -> <<94, 49>>
      [] s = "t" -> <<116>>
      [] s = "(" -> <<40>>
      [] s = "o/a" -> <<111, 47, 97>>
      [] s = "dockerhub" -> <<100, 111, 99, 107, 101, 114, 104, 117, 98>>
      [] s = "ghcr" -> <<103, 104, 99, 114>>
      [] s = "custom" -> <<99, 117, 115, 116, 111, 109>>
      [] s = "quay" -> <<113, 117, 97, 121>>
      [] s = "r.io" -> <<114, 46, 105, 111>>
      [] s = "ghcr.io/" -> <<103, 104, 99, 114, 46, 105, 111, 47>>
      [] s = "^" -> <<94>>
      [] s = "v1.9.0" -> <<118, 49, 46, 57, 46, 48>>
      [] s = "v2.0.0" -> <<118, 50, 46, 48, 46, 48>>
      [] s = "v1.10.0" -> <<118, 49, 46, 49, 48, 46, 48>>
      [] s = "v3.0.0" -> <<118, 51, 46, 48, 46, 48>>
      [] s = "3.0.0" -> <<51, 46, 48, 46, 48>>
      [] s = "v" -> <<118>>
      [] s = "v1" -> <<118, 49>>
      [] s = "v2" -> <<118, 50>>
      [] s = "v3" -> <<118, 51>>
      [] s = "v4" -> <<118, 52>>
      [] s = "y" -> <<121>>
      [] s = "replaced by y@" -> <<114, 101, 112, 108, 97, 99, 101, 100, 32, 98, 121, 32, 121, 64>>
      [] s = "u" -> <<117>>
      [] s = "git: u" -> <<103, 105, 116, 58, 32, 117>>
      [] s = "path: ../x" -> <<112, 97, 116, 104, 58, 32, 46, 46, 47, 120>>
      [] s = " # c" -> <<32, 35, 32, 99>>
      [] s = " a b! " -> <<32, 97, 32, 98, 33, 32>>
      [] s = "a/b/c" -> <<97, 47, 98, 47, 99>>
      [] s = "illuminate" -> <<105, 108, 108, 117, 109, 105, 110, 97, 116, 101>>
      [] s = "spatie" -> <<115, 112, 97, 116, 105, 101>>
      [] s = "filament" -> <<102, 105, 108, 97, 109, 101, 110, 116>>
      [] s = "laravel" -> <<108, 97, 114, 97, 118, 101, 108>>
      [] s = "laravel-" -> <<108, 97, 114, 97, 118, 101, 108, 45>>
      [] s = "filament-" -> <<102, 105, 108, 97, 109, 101, 110, 116, 45>>
      [] s = "other/x" -> <<111, 116, 104, 101, 114, 47, 120>>
      [] s = "^~>=<!" -> <<94, 126, 62, 61, 60, 33>>

\* ------------------------------------------------------------------------
\* Go's string operations, on byte sequences.

Min(S) == CHOOSE x \in S : \A y \in S : x <= y

\* a < b for Go strings: lexicographic order of the bytes.
StringLess(a, b) ==
    LET n == IF Len(a) < Len(b) THEN Len(a) ELSE Len(b)
        d == {i \in 1..n : a[i] # b[i]}
    IN  IF d = {} THEN Len(a) < Len(b) ELSE a[Min(d)] < b[Min(d)]

\* strings.ToLower, on ASCII text.
ToLower(s) == [i \in 1..Len(s) |-> IF s[i] \in 65..90 THEN s[i] + 32 ELSE s[i]]

\* strings.HasPrefix.
HasPrefix(s, p) == Len(p) <= Len(s) /\ SubSeq(s, 1, Len(p)) = p

\* strings.Contains.
Contains(s, sub) ==
    \E i \in 0..(Len(s) - Len(sub)) : SubSeq(s, i + 1, i + Len(sub)) = sub

\* strings.Split(s, sep) for a one-byte separator: the pieces between its
\* occurrences, in order (one piece, s itself, when sep does not occur).
Split(s, sep) ==
    LET at == {i \in 1..Len(s) : s[i] = sep}
        cuts == at \cup {0, Len(s) + 1}
        starts == cuts \ {Len(s) + 1}
        After(i) == Min({j \in cuts : j > i})
        Nth[k \in 1..Cardinality(starts)] ==
            IF k = 1 THEN 0 ELSE After(Nth[k - 1])
    IN  [k \in 1..Cardinality(starts) |-> SubSeq(s, Nth[k] + 1, After(Nth[k]) - 1)]

IsSpace(b) == b \in {9, 10, 11, 12, 13, 32}

\* strings.TrimSpace.
TrimSpace(s) ==
    LET keep == {i \in 1..Len(s) : ~IsSpace(s[i])}
    IN  IF keep = {} THEN <<>>
        ELSE SubSeq(s, Min(keep), CHOOSE i \in keep : \A j \in keep : j <= i)

\* strings.TrimLeft(s, cutset): drops every leading byte that is in cutset.
TrimLeft(s, cutset) ==
    LET cut == {cutset[i] : i \in 1..Len(cutset)}
        keep == {i \in 1..Len(s) : s[i] \notin cut}
    IN  IF keep = {} THEN <<>> ELSE SubSeq(s, Min(keep), Len(s))

\* strings.TrimPrefix.
TrimPrefix(s, p) == IF HasPrefix(s, p) THEN SubSeq(s, Len(p) + 1, Len(s)) ELSE s

\* The maximum of a non-empty set of distinct strings in sort.Strings order:
\* the last element after sort.Strings.
LastSorted(S) == CHOOSE v \in S : \A w \in S : ~StringLess(v, w)

\* ------------------------------------------------------------------------
\* Version utilities (internal/handlers utilities).

IsDigits(s) == Len(s) > 0 /\ \A i \in 1..Len(s) : s[i] \in 48..57

RECURSIVE Atoi(_)
Atoi(s) == IF Len(s) = 0 THEN 0
           ELSE 10 * Atoi(SubSeq(s, 1, Len(s) - 1)) + (s[Len(s)] - 48)

\* ParseVersion: split on '.', at most three numeric components, missing
\* minor and patch default to 0, any non-numeric component is an error.
ParseVersion(v) ==
    LET parts == Split(v, 46)
        ok == Len(parts) <= 3 /\ \A i \in 1..Len(parts) : IsDigits(parts[i])
        Nth(i) == IF i <= Len(parts) THEN Atoi(parts[i]) ELSE 0
    IN  IF ok THEN [err |-> FALSE, major |-> Nth(1), minor |-> Nth(2), patch |-> Nth(3)]
        ELSE [err |-> TRUE, major |-> 0, minor |-> 0, patch |-> 0]

\* The version strings of the model, and ParseVersion tabulated over them.
VersionStrings ==
    {Lit(""), Lit("1.0.0"), Lit("1.9.0"), Lit("1.10.0"), Lit("2.0.0"), Lit("3.0.0"),
     Lit("^1.2.0")}

Parsed == [v \in VersionStrings |-> ParseVersion(v)]

\* The comparison of two parsed versions: -1, 0 or 1 by (major, minor,
\* patch); an error when either side did not parse.
CompareParsed(a, b) ==
    IF a.err \/ b.err THEN [err |-> TRUE, result |-> 0]
    ELSE IF \/ a.major < b.major
            \/ a.major = b.major /\ a.minor < b.minor
            \/ a.major = b.major /\ a.minor = b.minor /\ a.patch < b.patch
    THEN [err |-> FALSE, result |-> -1]
    ELSE IF a = b THEN [err |-> FALSE, result |-> 0]
    ELSE [err |-> FALSE, result |-> 1]

\* CompareVersions.
CompareVersions(v1, v2) == CompareParsed(Parsed[v1], Parsed[v2])

\* The constraint prefixes CleanVersion removes, longest first.
CleanPrefixes == << <<62, 61>>, <<60, 61>>, <<94>>, <<126>>, <<62>>, <<60>>, <<61>>,
                    <<33>>, <<118>> >>

CleanVersionUntrimmed(v) ==
    LET t == TrimSpace(v)
        hits == {i \in 1..Len(CleanPrefixes) : HasPrefix(t, CleanPrefixes[i])}
    IN  IF hits = {} THEN t ELSE TrimPrefix(t, CleanPrefixes[Min(hits)])

\* CleanVersion: removes a single leading occurrence of a constraint prefix
\* and trims the surrounding whitespace.
CleanVersion(v) ==
    LET t == TrimSpace(v)
        hits == {i \in 1..Len(CleanPrefixes) : HasPrefix(t, CleanPrefixes[i])}
    IN  IF hits = {} THEN t ELSE TrimSpace(TrimPrefix(t, CleanPrefixes[Min(hits)]))

\* StringPtr: the optional currentVersion of a descriptor.
StringPtr(s) == s

\* ------------------------------------------------------------------------
\* State.

VARIABLES
    session,  \* the part of the program this run exercises: an ecosystem's
              \* tools, the TTL cache, or two concurrent npm requests
    cache,    \* the sync.Map shared by all handlers: key -> cached value
    call,     \* the last tool call served: its request and what it returned
    now,      \* the wall clock, in hours since the server started
    stamps,   \* for each key of the sync.Map, the hour it was stored (the
              \* map itself keeps no such record)
    pkgCache, \* the Cache of package cache: its fields data and times
    lastSet,  \* for each key, the value and hour of the last Set
    lastGet,  \* the last Get: its key, its hour and what it returned
    running,  \* the requests in flight: where each is in its handler
    writes,   \* the Stores to the sync.Map so far, in the order they happened
    tools,    \* the tools registered with the protocol server: name -> the
              \* properties of the input schema
    start,    \* Start: where its goroutine is, its transport, what it returned
    serve,    \* the goroutine Start spawns for the transport server
    errCh,    \* the channel errCh of Start (capacity 1)
    sigCh,    \* the channel sigCh of Start (capacity 1)
    dispatch, \* the last tools/call request and whether a tool was found
    cleaned   \* a version text and what CleanVersion made of it, applied
              \* once and then again to its own result

resolverVars == <<session, cache, call, stamps>>
ttlVars == <<pkgCache, lastSet, lastGet>>
concVars == <<running, writes>>
serverVars == <<tools, start, serve, errCh, sigCh, dispatch>>
vars == <<session, cache, call, now, stamps, pkgCache, lastSet, lastGet, running, writes,
          tools, start, serve, errCh, sigCh, dispatch, cleaned>>

\* What a tool call leaves alone.
others == <<session, now, ttlVars, concVars, serverVars, cleaned>>

EmptyMap == [k \in {} |-> TRUE]

\* sync.Map.Load: (value, ok).
Load(c, key) == IF key \in DOMAIN c THEN [ok |-> TRUE, value |-> c[key]]
                ELSE [ok |-> FALSE, value |-> <<>>]

\* Store as LoadOrStore would have it: a key that is present keeps its value.
StoreIfAbsent(c, key, value) ==
    [k \in DOMAIN c \cup {key} |-> IF k \in DOMAIN c THEN c[k] ELSE value]

\* sync.Map.Store: the value of key is replaced.
Store(c, key, value) == [k \in DOMAIN c \cup {key} |-> IF k = key THEN value ELSE c[k]]

\* The handler returns with the sync.Map as its lookups left it.
Stored(c) ==
    /\ cache' = c
    /\ stamps' = [k \in DOMAIN c |-> IF k \in DOMAIN cache THEN stamps[k] ELSE now]

\* The result descriptor of the package resolvers.  Fields a composite
\* literal leaves out keep Go's zero value.
PackageVersion(name, currentVersion, latestVersion, registry, skipped, skipReason) ==
    [name |-> name, currentVersion |-> currentVersion, latestVersion |-> latestVersion,
     registry |-> registry, skipped |-> skipped, skipReason |-> skipReason]

\* The orders in which a range over a Go map may visit the keys S.
Orders(S) == {o \in [1..Cardinality(S) -> S] : \A i, j \in DOMAIN o : i # j => o[i] # o[j]}

\* The sequences of at most MaxDeps elements of S: a JSON array.
Arrays(S) == UNION {[1..n -> S] : n \in 0..MaxDeps}

\* The maps over at most MaxDeps of the names S, with values in V: a JSON
\* object.
MapsOver(S, V) ==
    UNION {[D -> V] : D \in {D \in SUBSET S : Cardinality(D) <= MaxDeps}}

Elements(seq) == {seq[i] : i \in DOMAIN seq}

\* sort.Slice permutes the slice in place: the arrangements of rs.
SortSlice(rs) == {[i \in 1..Len(rs) |-> rs[p[i]]] : p \in Orders(1..Len(rs))}

\* less of the package resolvers: by lowercased name.
NameLess(x, y) == StringLess(ToLower(x.name), ToLower(y.name))

\* The outcomes sort.Slice may leave with NameLess: every arrangement that
\* is in order; elements that compare equal may land in either order.
SortByName(rs) ==
    {s \in SortSlice(rs) : \A i, j \in 1..Len(s) : i < j => ~NameLess(s[j], s[i])}

\* The loop of a handler over its dependencies.  One(c, item, out) is the
\* loop body: what it appends to the results (nothing, or one descriptor),
\* the cache it leaves, the keys it fetched, the names whose lookup failed
\* and what it read from the registry.  outs[i] is the outcome of the HTTP
\* exchange of the i-th pass, should that pass make one.
NoPass(c) == [results |-> <<>>, cache |-> c, fetched |-> {}, failed |-> {}, notes |-> <<>>]

RECURSIVE Range(_, _, _, _)
Range(One(_, _, _), items, outs, acc) ==
    IF items = <<>> THEN acc
    ELSE LET one == One(acc.cache, Head(items), Head(outs))
         IN  Range(One, Tail(items), Tail(outs),
                   [results |-> acc.results \o one.results,
                    cache |-> one.cache,
                    fetched |-> acc.fetched \cup one.fetched,
                    failed |-> acc.failed \cup one.failed,
                    notes |-> acc.notes \o one.notes])

\* What one served call leaves behind for inspection.
\*   err      the error returned instead of a result ("" when none)
\*   results  the descriptors of the JSON result, in order
\*   input    the distinct dependency entries of the request
\*   exempt   the entries the resolver is documented to leave out
\*   failed   the names whose registry lookup failed
\*   fetched  the cache keys for which an HTTP request was issued
\*   notes    what the passes read from the registry or the cache
\*   constraints  the request's `constraints` argument, when it has one
\*   request  the arguments of the request, where a property reads them
Served(tool, results, input, exempt, done) ==
    [tool |-> tool, err |-> "", results |-> results, input |-> input,
     exempt |-> exempt, failed |-> done.failed, fetched |-> done.fetched,
     notes |-> done.notes, constraints |-> EmptyMap, request |-> <<>>]

\* The same, of a request that carried constraints.
Constrained(served, constraints) == [served EXCEPT !.constraints = constraints]

\* The served call with the arguments of the request.
Requested(served, request) == [served EXCEPT !.request = request]

\* NewToolResultJSON is not reached: the handler returned (nil, err).
Refused(tool, err) ==
    [tool |-> tool, err |-> err, results |-> <<>>, input |-> {}, exempt |-> {},
     failed |-> {}, fetched |-> {}, notes |-> <<>>, constraints |-> EmptyMap,
     request |-> <<>>]

\* A handler returns an error for a request that lacks the argument or
\* carries it in the wrong shape.
Refuse(tool, errs) ==
    /\ \E e \in errs : call' = Refused(tool, e)
    /\ UNCHANGED <<cache, stamps>>

\* One HTTP exchange and decode of the registries that answer with one
\* version: an error (transport, status, decode, not found) or the version.
Failure == [err |-> TRUE, version |-> <<>>]

Outcomes == {Failure, [err |-> FALSE, version |-> Lit("2.0.0")]}

\* The cache-then-fetch pattern of the handlers' lookups.
Lookup(c, key, out) ==
    LET cached == Load(c, key)
    IN  IF cached.ok
        THEN [err |-> FALSE, version |-> cached.value, cache |-> c, fetched |-> {}]
        ELSE IF out.err
        THEN [err |-> TRUE, version |-> <<>>, cache |-> c, fetched |-> {key}]
        ELSE [err |-> FALSE, version |-> out.version,
              cache |-> Store(c, key, out.version), fetched |-> {key}]

\* The per-package constraints a request may carry.
Constraints ==
    { [hasMajor |-> FALSE, major |-> 0, exclude |-> TRUE],
      [hasMajor |-> TRUE, major |-> 1, exclude |-> FALSE] }

ExcludedNever(constraints, name) == FALSE

Excluded(constraints, name) == name \in DOMAIN constraints /\ constraints[name].exclude

\* ------------------------------------------------------------------------
\* npm (internal/handlers/npm.go).

NpmNames == {Lit("B"), Lit("a")}

\* What the registry may answer for a package: dist-tags.latest ("" when the
\* tag is absent) and the keys of `versions`.
NpmInfos ==
    { [latest |-> Lit("2.0.0"), versions |-> {Lit("1.9.0"), Lit("1.10.0"), Lit("2.0.0")}],
      [latest |-> Lit(""), versions |-> {Lit("1.9.0"), Lit("1.10.0")}],
      [latest |-> Lit("2.0.0"), versions |-> {Lit("2.0.0")}],
      \* the document of a package without a published version
      [latest |-> Lit(""), versions |-> {}] }

NpmOutcomes == {[err |-> TRUE, info |-> <<>>]} \cup {[err |-> FALSE, info |-> i] : i \in NpmInfos}

NpmKey(name) == <<"npm", name>>

\* getPackageInfo: cache, else fetch, decode and store.
NpmGetPackageInfo(c, name, out) ==
    LET cached == Load(c, NpmKey(name))
    IN  IF cached.ok
        THEN [err |-> FALSE, info |-> cached.value, cache |-> c, fetched |-> {}]
        ELSE IF out.err
        THEN [err |-> TRUE, info |-> <<>>, cache |-> c, fetched |-> {NpmKey(name)}]
        ELSE [err |-> FALSE, info |-> out.info, cache |-> Store(c, NpmKey(name), out.info),
              fetched |-> {NpmKey(name)}]

\* The exclusion descriptor without its reason.
NpmExcludedNoReason(name) == PackageVersion(name, <<>>, <<>>, "", TRUE, "")

\* The descriptor of a package its constraint excludes.
NpmExcluded(name) == PackageVersion(name, <<>>, <<>>, "", TRUE, "Package excluded by constraints")

\* The descriptor of a package whose lookup failed.
NpmFailed(name, currentVersion) ==
    PackageVersion(name, StringPtr(currentVersion), Lit("unknown"), "npm", TRUE,
                   "Failed to fetch package info: %v")

\* dist-tags.latest, else the last of the sorted version keys.
NpmLatest(info) ==
    IF info.latest # <<>> THEN info.latest
    ELSE IF info.versions # {} THEN LastSorted(info.versions)
    ELSE <<>>

\* The major-version constraint: when the latest is of a later major, the
\* last, in sort.Strings order, of the versions of the target major.
NpmApplyMajor(info, latestVersion, targetMajor) ==
    LET latest == Parsed[latestVersion]
        ofMajor == {v \in info.versions : ~Parsed[v].err /\ Parsed[v].major = targetMajor}
    IN  IF ~latest.err /\ latest.major > targetMajor /\ ofMajor # {}
        THEN LastSorted(ofMajor)
        ELSE latestVersion

\* The descriptor of a package once getPackageInfo has returned.
NpmResult(name, currentVersion, constraints, err, info) ==
    LET latest == NpmLatest(info)
        pinned == IF name \in DOMAIN constraints /\ constraints[name].hasMajor
                  THEN NpmApplyMajor(info, latest, constraints[name].major)
                  ELSE latest
    IN  IF err THEN NpmFailed(name, currentVersion)
        ELSE PackageVersion(name, StringPtr(currentVersion), pinned, "npm", FALSE, "")

NpmOneLookupFirst(c, name, version, constraints, out) ==
    LET got == NpmGetPackageInfo(c, name, out)
    IN  IF Excluded(constraints, name)
        THEN [results |-> <<NpmExcluded(name)>>, cache |-> got.cache,
              fetched |-> got.fetched, failed |-> {}, notes |-> <<>>]
        ELSE [results |-> <<NpmResult(name, CleanVersion(version), constraints,
                                      got.err, got.info)>>,
              cache |-> got.cache, fetched |-> got.fetched,
              failed |-> IF got.err THEN {name} ELSE {},
              notes |-> IF got.err THEN <<>>
                        ELSE <<[name |-> name, info |-> got.info,
                                constraints |-> constraints]>>]

\* One pass of the loop over the dependencies: the descriptor of `name`.
NpmOne(c, name, version, constraints, out) ==
    IF Excluded(constraints, name)
    THEN [NoPass(c) EXCEPT !.results = <<NpmExcluded(name)>>]
    ELSE LET currentVersion == CleanVersion(version)
             got == NpmGetPackageInfo(c, name, out)
         IN  [results |-> <<NpmResult(name, currentVersion, constraints, got.err, got.info)>>,
              cache |-> got.cache, fetched |-> got.fetched,
              failed |-> IF got.err THEN {name} ELSE {},
              notes |-> IF got.err THEN <<>>
                        ELSE <<[name |-> name, info |-> got.info,
                                constraints |-> constraints]>>]

\* NpmHandler.GetLatestVersion.
NpmGetLatestVersion ==
    /\ session = "npm"
    /\ call.tool = "none"
    /\ \/ Refuse("check_npm_versions", {"missing required parameter: dependencies",
                                        "invalid dependencies format: expected object"})
       \/ \E deps \in MapsOver(NpmNames, {Lit("^1.2.0")}) :
          \E constraints \in MapsOver(DOMAIN deps, Constraints) :
          \E order \in Orders(DOMAIN deps) :
          \E outs \in [DOMAIN order -> NpmOutcomes] :
             \* no outcome is drawn for an exchange that does not take place
             /\ \A i \in DOMAIN order :
                   (NpmKey(order[i]) \in DOMAIN cache \/ Excluded(constraints, order[i]))
                   => outs[i].err
             /\ \E done \in {Range(LAMBDA c, n, o : NpmOne(c, n, deps[n], constraints, o),
                                     order, outs, NoPass(cache))} :
                 \E sorted \in SortByName(done.results) :
                       /\ Stored(done.cache)
                       /\ call' = Constrained(Served("check_npm_versions", sorted, DOMAIN deps,
                                                   {}, done), constraints)
    /\ UNCHANGED others

\* ------------------------------------------------------------------------
\* Python (PythonHandler; requirements.txt lines and pyproject.toml tables).

\* A JSON field that is absent, or present with a value that is not a string.
Absent == <<-1>>

PyKey(name) == <<"pypi", name>>

IsNameChar(b) ==
    \/ b \in 48..57 \/ b \in 65..90 \/ b \in 97..122
    \/ b = 95 \/ b = 46 \/ b = 45

IsOperatorChar(b) == b \in {60, 62, 61, 33, 126, 94}

\* parseRequirement: ^([a-zA-Z0-9_.-]+)(?:\s*([<>=!~^].*)?)?$
\* The name is the longest run of name characters; what follows it is
\* white space and then nothing, or a constraint that starts with an
\* operator character and holds no line feed.
ParseRequirement(req) ==
    LET stops == {i \in 1..Len(req) : ~IsNameChar(req[i])}
        n == IF stops = {} THEN Len(req) ELSE Min(stops) - 1
        rest == SubSeq(req, n + 1, Len(req))
        inks == {i \in 1..Len(rest) : ~IsSpace(rest[i])}
        tail == IF inks = {} THEN <<>> ELSE SubSeq(rest, Min(inks), Len(rest))
        ok == /\ n >= 1
              /\ \/ tail = <<>>
                 \/ IsOperatorChar(tail[1]) /\ \A i \in 1..Len(tail) : tail[i] # 10
    IN  IF ok THEN [err |-> FALSE, name |-> SubSeq(req, 1, n), version |-> TrimSpace(tail)]
        ELSE [err |-> TRUE, name |-> <<>>, version |-> <<>>]

PyFailed(name, currentVersion) ==
    PackageVersion(name, StringPtr(currentVersion), Lit("unknown"), "pypi", TRUE,
                   "Failed to fetch package info: %v")

\* The descriptor of a line parseRequirement rejects.
PyUnparsed(req) == PackageVersion(req, <<>>, <<>>, "", TRUE, "Failed to parse requirement: %v")

PyIgnoredWhenEmpty(line) == TrimSpace(line) = <<>>

\* A line of the requirements array that the loop passes over.
PyIgnored(line) == TrimSpace(line) = <<>> \/ HasPrefix(TrimSpace(line), Lit("#"))

RequirementLines == {Lit(" # c"), Lit(""), Lit("B==1.2.0"), Lit("a"), Lit(" a b! ")}

\* parseRequirement tabulated over the trimmed lines of the model.
Requirements == [req \in {TrimSpace(l) : l \in RequirementLines} |-> ParseRequirement(req)]

\* One pass of the loop over the requirement lines.
PyRequirementOne(c, line, out) ==
    LET req == TrimSpace(line)
        parsed == Requirements[req]
        got == Lookup(c, PyKey(parsed.name), out)
        currentVersion == CleanVersion(parsed.version)
    IN  IF PyIgnored(line) THEN NoPass(c)
        ELSE IF parsed.err THEN [NoPass(c) EXCEPT !.results = <<PyUnparsed(req)>>]
        ELSE IF got.err
        THEN [results |-> <<PyFailed(parsed.name, currentVersion)>>, cache |-> got.cache,
              fetched |-> got.fetched, failed |-> {parsed.name}, notes |-> <<>>]
        ELSE [results |-> <<PackageVersion(parsed.name, StringPtr(currentVersion),
                                           got.version, "pypi", FALSE, "")>>,
              cache |-> got.cache, fetched |-> got.fetched, failed |-> {}, notes |-> <<>>]

\* PythonHandler.GetLatestVersionFromRequirements.
GetLatestVersionFromRequirements ==
    /\ session = "python"
    /\ call.tool = "none"
    /\ \/ Refuse("check_python_versions", {"missing required parameter: requirements",
                                           "invalid requirements format: expected array"})
       \/ \E reqs \in Arrays(RequirementLines) :
          \E outs \in [DOMAIN reqs -> Outcomes] :
             /\ \A i \in DOMAIN reqs :
                   (PyIgnored(reqs[i]) \/ Requirements[TrimSpace(reqs[i])].err
                      \/ PyKey(Requirements[TrimSpace(reqs[i])].name) \in DOMAIN cache)
                   => outs[i] = Failure
             /\ \E done \in
                   {Range(PyRequirementOne, reqs, outs, NoPass(cache))} :
                \E sorted \in SortByName(done.results) :
                       /\ Stored(done.cache)
                       /\ call' = Requested(Served("check_python_versions", sorted,
                                                    Elements(reqs),
                                                    {l \in Elements(reqs) : PyIgnored(l)},
                                                    done), reqs)
    /\ UNCHANGED others

\* processPackage: the descriptor of one package and the error of its lookup.
ProcessPackage(c, name, version, out) ==
    LET currentVersion == CleanVersion(version)
        got == Lookup(c, PyKey(name), out)
    IN  [err |-> got.err, cache |-> got.cache, fetched |-> got.fetched,
         result |-> IF got.err THEN PyFailed(name, currentVersion)
                    ELSE PackageVersion(name, StringPtr(currentVersion), got.version,
                                        "pypi", FALSE, "")]

\* The name under which a dependency of a pyproject table is reported.
PyProjectName(entry) ==
    CASE entry.table = "dependencies" -> entry.name
      [] entry.table = "optional-dependencies" ->
            entry.name \o Lit(" (optional:") \o entry.group \o Lit(")")
      [] entry.table = "dev-dependencies" -> entry.name \o Lit(" (dev)")

\* One pass of one of the three loops: a dependency whose processPackage
\* returns an error is logged and not appended.
PyProjectOne(c, entry, out) ==
    LET p == ProcessPackage(c, entry.name, entry.version, out)
    IN  IF p.err
        THEN [results |-> <<>>, cache |-> p.cache, fetched |-> p.fetched,
              failed |-> {entry.name}, notes |-> <<>>]
        ELSE [results |-> <<[p.result EXCEPT !.name = PyProjectName(entry)]>>,
              cache |-> p.cache, fetched |-> p.fetched, failed |-> {}, notes |-> <<>>]

PyProjectEntries ==
    {[table |-> "dependencies", group |-> <<>>, name |-> n, version |-> Lit("^1.2.0")] :
        n \in {Lit("B"), Lit("a")}}
    \cup {[table |-> "optional-dependencies", group |-> Lit("g"), name |-> Lit("a"),
           version |-> Lit("^1.2.0")],
          [table |-> "dev-dependencies", group |-> <<>>, name |-> Lit("a"),
           version |-> Lit("^1.2.0")]}

TableRank(table) ==
    CASE table = "dependencies" -> 1
      [] table = "optional-dependencies" -> 2
      [] table = "dev-dependencies" -> 3

\* PythonHandler.GetLatestVersionFromPyProject: the main table, then the
\* optional groups, then the dev table, each in map order.
GetLatestVersionFromPyProject ==
    /\ session = "python"
    /\ call.tool = "none"
    /\ \/ Refuse("check_pyproject_versions", {"missing required parameter: dependencies",
                                              "invalid dependencies format: expected object"})
       \/ \E deps \in {D \in SUBSET PyProjectEntries : Cardinality(D) <= MaxDeps} :
          \E order \in {o \in Orders(deps) :
                          \A i, j \in DOMAIN o :
                             i < j => TableRank(o[i].table) <= TableRank(o[j].table)} :
          \E outs \in [DOMAIN order -> Outcomes] :
             /\ \A i \in DOMAIN order :
                   PyKey(order[i].name) \in DOMAIN cache => outs[i] = Failure
             /\ \E done \in
                   {Range(PyProjectOne, order, outs, NoPass(cache))} :
                \E sorted \in SortByName(done.results) :
                       /\ Stored(done.cache)
                       /\ call' = Served("check_pyproject_versions", sorted, deps, {}, done)
    /\ UNCHANGED others

\* ------------------------------------------------------------------------
\* Java (internal/handlers/java.go): Maven and Gradle.

MavenKey(groupID, artifactID) == <<"maven", groupID \o Lit(":") \o artifactID>>

\* getLatestVersion: cache, else the first document of the search response.
JavaGetLatestVersion(c, groupID, artifactID, out) == Lookup(c, MavenKey(groupID, artifactID), out)

\* One pass of the loop of either tool over the converted dependencies.
JavaOne(c, groupID, artifactID, version, label, registry, out) ==
    LET got == JavaGetLatestVersion(c, groupID, artifactID, out)
        plain == groupID \o Lit(":") \o artifactID
        name == IF label # <<>> THEN plain \o Lit(" (") \o label \o Lit(")") ELSE plain
    IN  IF got.err
        THEN [results |-> <<PackageVersion(plain, StringPtr(version), Lit("unknown"), registry,
                                           TRUE, "Failed to fetch artifact info: %v")>>,
              cache |-> got.cache, fetched |-> got.fetched, failed |-> {plain},
              notes |-> <<>>]
        ELSE [results |-> <<PackageVersion(name, StringPtr(version), got.version, registry,
                                           FALSE, "")>>,
              cache |-> got.cache, fetched |-> got.fetched, failed |-> {}, notes |-> <<>>]

\* A string field of a JSON object, "" when the conversion leaves it unset.
OrEmpty(field) == IF field = Absent THEN <<>> ELSE field

MavenEntries ==
    {[groupId |-> e[1], artifactId |-> e[2], version |-> Lit("1.9.0"), scope |-> e[3]] :
        e \in {<<Lit("g"), Lit("B"), Absent>>, <<Lit("g"), Lit("a"), Lit("test")>>,
               <<Absent, Lit("a"), Absent>>, <<Lit("g"), Absent, Absent>>}}

\* The conversion to []MavenDependency: an entry without a string groupId or
\* artifactId is passed over.
MavenDeps(arr) == SelectSeq(arr, LAMBDA d : d.groupId # Absent /\ d.artifactId # Absent)

\* JavaHandler.GetLatestVersionFromMaven.
GetLatestVersionFromMaven ==
    /\ session = "java"
    /\ call.tool = "none"
    /\ \/ Refuse("check_maven_versions", {"missing required parameter: dependencies",
                                          "invalid dependencies format: expected array"})
       \/ \E arr \in Arrays(MavenEntries) :
          \E outs \in [DOMAIN MavenDeps(arr) -> Outcomes] :
             LET deps == MavenDeps(arr)
             IN  /\ \A i \in DOMAIN deps :
                       MavenKey(deps[i].groupId, deps[i].artifactId) \in DOMAIN cache
                       => outs[i] = Failure
                 /\ \E done \in
                       {Range(LAMBDA c, d, o :
                                 JavaOne(c, d.groupId, d.artifactId, OrEmpty(d.version),
                                         OrEmpty(d.scope), "maven", o),
                              deps, outs, NoPass(cache))} :
                    \E sorted \in SortByName(done.results) :
                       /\ Stored(done.cache)
                       /\ call' = Served("check_maven_versions", sorted, Elements(arr), {}, done)
    /\ UNCHANGED others

GradleEntries ==
    {[configuration |-> e[1], group |-> Lit("g"), name |-> e[2], version |-> Lit("1.9.0")] :
        e \in {<<Lit("test"), Lit("B")>>, <<Lit(""), Lit("a")>>, <<Lit("test"), Lit("a")>>,
               <<Absent, Lit("B")>>}}

\* The conversion to []GradleDependency.
GradleDeps(arr) ==
    SelectSeq(arr, LAMBDA d : d.configuration # Absent /\ d.group # Absent /\ d.name # Absent)

\* JavaHandler.GetLatestVersionFromGradle.
GetLatestVersionFromGradle ==
    /\ session = "java"
    /\ call.tool = "none"
    /\ \/ Refuse("check_gradle_versions", {"missing required parameter: dependencies",
                                           "invalid dependencies format: expected array"})
       \/ \E arr \in Arrays(GradleEntries) :
          \E outs \in [DOMAIN GradleDeps(arr) -> Outcomes] :
             LET deps == GradleDeps(arr)
             IN  /\ \A i \in DOMAIN deps :
                       MavenKey(deps[i].group, deps[i].name) \in DOMAIN cache
                       => outs[i] = Failure
                 /\ \E done \in
                       {Range(LAMBDA c, d, o :
                                 JavaOne(c, d.group, d.name, OrEmpty(d.version),
                                         d.configuration, "gradle", o),
                              deps, outs, NoPass(cache))} :
                    \E sorted \in SortByName(done.results) :
                       /\ Stored(done.cache)
                       /\ call' = Served("check_gradle_versions", sorted, Elements(arr), {}, done)
    /\ UNCHANGED others

\* ------------------------------------------------------------------------
\* Go modules (GoHandler).

GoKey(modulePath) == <<"go", modulePath>>

\* getLatestVersion: cache, else the Version of the proxy's @latest answer.
GoGetLatestVersion(c, modulePath, out) == Lookup(c, GoKey(modulePath), out)

GoReplacedByLast(replace, path) ==
    LET hits == {i \in DOMAIN replace : replace[i].old = path}
    IN  IF hits = {} THEN [found |-> FALSE, new |-> <<>>, version |-> <<>>]
        ELSE [found |-> TRUE, new |-> replace[Len(replace)].new,
              version |-> replace[Len(replace)].version]

\* The first replace directive for a path, if there is one.
GoReplacedBy(replace, path) ==
    LET hits == {i \in DOMAIN replace : replace[i].old = path}
    IN  IF hits = {} THEN [found |-> FALSE, new |-> <<>>, version |-> <<>>]
        ELSE [found |-> TRUE, new |-> replace[Min(hits)].new,
              version |-> replace[Min(hits)].version]

\* One pass of the loop over goModule.Require.
GoOne(c, req, replace, out) ==
    LET rep == GoReplacedBy(replace, req.path)
        got == GoGetLatestVersion(c, req.path, out)
    IN  IF rep.found
        THEN [NoPass(c) EXCEPT !.results =
                 <<PackageVersion(req.path, StringPtr(req.version),
                                  Lit("replaced by ") \o rep.new \o Lit("@") \o rep.version,
                                  "go", TRUE, "Module is replaced")>>]
        ELSE IF got.err
        THEN [results |-> <<PackageVersion(req.path, StringPtr(req.version), Lit("unknown"),
                                           "go", TRUE, "Failed to fetch module info: %v")>>,
              cache |-> got.cache, fetched |-> got.fetched, failed |-> {req.path},
              notes |-> <<>>]
        ELSE [results |-> <<PackageVersion(req.path, StringPtr(req.version), got.version,
                                           "go", FALSE, "")>>,
              cache |-> got.cache, fetched |-> got.fetched, failed |-> {}, notes |-> <<>>]

\* The dependencies argument: the simple form, a map from path to version,
\* or the complex form with `module`, `require` and `replace`.
GoSimple ==
    {[form |-> "simple", deps |-> d] :
        d \in MapsOver({Lit("B"), Lit("a")}, {Lit("1.9.0"), Absent})}

GoComplex ==
    {[form |-> "complex", require |-> r, replace |-> p] :
        r \in Arrays({[path |-> q, version |-> Lit("1.9.0")] : q \in {Lit("B"), Lit("a"), Absent}}),
        p \in {<<>>,
                <<[old |-> Lit("a"), new |-> Lit("x"), version |-> Lit("2.0.0")]>>,
                <<[old |-> Lit("a"), new |-> Absent, version |-> Lit("2.0.0")],
                  [old |-> Lit("a"), new |-> Lit("y"), version |-> Absent],
                  [old |-> Lit("a"), new |-> Lit("x"), version |-> Lit("2.0.0")]>>,
                <<[old |-> Lit("B"), new |-> Absent, version |-> Lit("2.0.0")]>>}}

\* goModule.Require as the conversion leaves it: in the simple form the
\* entries with a string version, in map order; in the complex form the
\* entries with a string path.
GoRequires(arg) ==
    IF arg.form = "simple"
    THEN {[i \in DOMAIN o |-> [path |-> o[i], version |-> arg.deps[o[i]]]] :
             o \in Orders({n \in DOMAIN arg.deps : arg.deps[n] # Absent})}
    ELSE {SelectSeq(arg.require, LAMBDA r : r.path # Absent)}

\* goModule.Replace as the conversion leaves it: the entries with a string
\* old and a string new, with "" for a version that is not a string.
GoReplaces(arg) ==
    IF arg.form = "simple" THEN <<>>
    ELSE LET kept == SelectSeq(arg.replace, LAMBDA r : r.old # Absent /\ r.new # Absent)
         IN  [i \in DOMAIN kept |-> [kept[i] EXCEPT !.version = OrEmpty(@)]]

GoInput(arg) ==
    IF arg.form = "simple"
    THEN {[path |-> n, version |-> arg.deps[n]] : n \in DOMAIN arg.deps}
    ELSE Elements(arg.require)

\* The loop and the sort, once the argument is converted.
GoServe(arg) ==
    \E require \in GoRequires(arg) :
    \E outs \in [DOMAIN require -> Outcomes] :
       LET replace == GoReplaces(arg)
       IN  /\ \A i \in DOMAIN require :
                 (GoKey(require[i].path) \in DOMAIN cache
                    \/ GoReplacedBy(replace, require[i].path).found)
                 => outs[i] = Failure
           /\ \E done \in
                 {Range(LAMBDA c, r, o : GoOne(c, r, replace, o), require, outs, NoPass(cache))} :
              \E sorted \in SortByName(done.results) :
                 /\ Stored(done.cache)
                 /\ call' = Requested(Served("check_go_versions", sorted, GoInput(arg),
                                              {}, done), arg)

\* GoHandler.GetLatestVersion.
GoGetLatestVersions ==
    /\ session = "go"
    /\ call.tool = "none"
    /\ \/ Refuse("check_go_versions", {"missing required parameter: dependencies",
                                       "invalid dependencies format: expected object, got %T"})
       \/ \E arg \in GoSimple : GoServe(arg)
       \/ \E arg \in GoComplex : GoServe(arg)
    /\ UNCHANGED others

\* ------------------------------------------------------------------------
\* Rust crates (RustHandler).

RustKey(crateName) == <<"rust", crateName>>

\* getLatestVersion: cache, else the crate's max stable version, max version
\* or highest version that is not yanked; an error when there is none.
RustGetLatestVersion(c, crateName, out) == Lookup(c, RustKey(crateName), out)

\* One pass of the loop over the converted dependencies.
RustOne(c, dep, out) ==
    LET got == RustGetLatestVersion(c, dep.name, out)
    IN  IF got.err
        THEN [results |-> <<PackageVersion(dep.name, StringPtr(dep.version), Lit("unknown"),
                                           "crates.io", TRUE, "Failed to fetch crate info: %v")>>,
              cache |-> got.cache, fetched |-> got.fetched, failed |-> {dep.name},
              notes |-> <<>>]
        ELSE [results |-> <<PackageVersion(dep.name, StringPtr(dep.version), got.version,
                                           "crates.io", FALSE, "")>>,
              cache |-> got.cache, fetched |-> got.fetched, failed |-> {}, notes |-> <<>>]

\* The value of a key of a dependency map: a string, an object (with its
\* fields `version` and `path`, each a string or absent) or any other value.
Values ==
    {[kind |-> "string", version |-> Lit("1.9.0"), path |-> Absent],
     [kind |-> "object", version |-> Lit("1.9.0"), path |-> Absent],
     [kind |-> "object", version |-> Absent, path |-> Lit("../x")],
     [kind |-> "other", version |-> Absent, path |-> Absent]}

RustMaps == {[form |-> "map", deps |-> d] : d \in MapsOver({Lit("B"), Lit("a")}, Values)}

RustArrays ==
    {[form |-> "array", deps |-> a] :
        a \in Arrays({[name |-> n, version |-> Lit("1.9.0")] : n \in {Lit("B"), Lit("a"), Absent}})}

\* []RustDependency as the conversion leaves it.
RustDependencies(arg) ==
    IF arg.form = "map"
    THEN {[i \in DOMAIN o |->
              [name |-> o[i],
               version |-> OrEmpty(arg.deps[o[i]].version)]] :
             o \in Orders({n \in DOMAIN arg.deps : arg.deps[n].kind # "other"})}
    ELSE {SelectSeq(arg.deps, LAMBDA d : d.name # Absent)}

MapInput(arg) ==
    IF arg.form = "map"
    THEN {[name |-> n, value |-> arg.deps[n]] : n \in DOMAIN arg.deps}
    ELSE Elements(arg.deps)

\* The loop and the sort, once the argument is converted.
RustServe(arg) ==
    \E dependencies \in RustDependencies(arg) :
    \E outs \in [DOMAIN dependencies -> Outcomes] :
       /\ \A i \in DOMAIN dependencies :
             RustKey(dependencies[i].name) \in DOMAIN cache => outs[i] = Failure
       /\ \E done \in
             {Range(RustOne, dependencies, outs, NoPass(cache))} :
          \E sorted \in SortByName(done.results) :
             /\ Stored(done.cache)
             /\ call' = Served("check_rust_versions", sorted, MapInput(arg), {}, done)

\* RustHandler.GetLatestVersion.
RustGetLatestVersions ==
    /\ session = "rust"
    /\ call.tool = "none"
    /\ \/ Refuse("check_rust_versions",
                 {"missing required parameter: dependencies",
                  "invalid dependencies format: expected object or array, got %T"})
       \/ \E arg \in RustMaps : RustServe(arg)
       \/ \E arg \in RustArrays : RustServe(arg)
    /\ UNCHANGED others

\* ------------------------------------------------------------------------
\* Dart packages (internal/handlers/dart.go).

DartKey(packageName) == <<"dart", packageName>>

\* The package names getLatestVersion answers with "sdk" without a request.
DartSdkNames == {Lit("flutter"), Lit("dart"), Lit("flutter_test"), Lit("flutter_driver")}

\* getLatestVersion: cache, else "sdk" for the SDK's packages, else the
\* latest version of the registry that is not retracted.
DartGetLatestVersion(c, packageName, out) ==
    IF DartKey(packageName) \notin DOMAIN c /\ packageName \in DartSdkNames
    THEN [err |-> FALSE, version |-> Lit("sdk"), cache |-> c, fetched |-> {}]
    ELSE Lookup(c, DartKey(packageName), out)

\* The name tells that the SDK provides the package.
DartIsSDK(name) ==
    \/ name = Lit("flutter") \/ name = Lit("dart")
    \/ HasPrefix(name, Lit("flutter:")) \/ HasPrefix(name, Lit("dart:"))

DartIsEnv(name) == HasPrefix(name, Lit("sdk:"))

\* The dependency is reported without a lookup.
DartSpecial(dep) ==
    \/ dep.sdk \/ dep.environment
    \/ HasPrefix(dep.version, Lit("git:")) \/ HasPrefix(dep.version, Lit("path:"))

\* One pass of the loop over the converted dependencies.
DartOne(c, dep, out) ==
    LET got == DartGetLatestVersion(c, dep.name, out)
    IN  IF dep.sdk \/ dep.environment
        THEN [NoPass(c) EXCEPT !.results =
                 <<PackageVersion(dep.name, StringPtr(dep.version), Lit("sdk dependency"),
                                  "pub.dev", TRUE,
                                  "SDK or environment dependency, version is managed by the SDK")>>]
        ELSE IF HasPrefix(dep.version, Lit("git:")) \/ HasPrefix(dep.version, Lit("path:"))
        THEN [NoPass(c) EXCEPT !.results =
                 <<PackageVersion(dep.name, StringPtr(dep.version), Lit("special dependency"),
                                  "pub.dev", TRUE,
                                  "Git or path dependency, not a version constraint")>>]
        ELSE IF got.err
        THEN [results |-> <<PackageVersion(dep.name, StringPtr(dep.version), Lit("unknown"),
                                           "pub.dev", TRUE, "Failed to fetch package info: %v")>>,
              cache |-> got.cache, fetched |-> got.fetched, failed |-> {dep.name},
              notes |-> <<>>]
        ELSE [results |-> <<PackageVersion(dep.name, StringPtr(dep.version), got.version,
                                           "pub.dev", FALSE, "")>>,
              cache |-> got.cache, fetched |-> got.fetched, failed |-> {}, notes |-> <<>>]

\* The value of a key of the dependencies map of a pubspec: a string, an
\* object (with `version` and `path`, each a string or absent, and `git`, the
\* pair of its `url` and `ref`, or absent) or any other value.
DartValues ==
    {[kind |-> "string", version |-> Lit("1.9.0"), path |-> Absent, git |-> Absent],
     [kind |-> "object", version |-> Lit("1.9.0"), path |-> Absent, git |-> Absent],
     [kind |-> "object", version |-> Absent, path |-> Lit("../x"), git |-> Absent],
     [kind |-> "object", version |-> Absent, path |-> Absent,
      git |-> <<Lit("u"), Absent>>],
     [kind |-> "object", version |-> Lit("1.9.0"), path |-> Lit("../x"), git |-> Absent],
     [kind |-> "other", version |-> Absent, path |-> Absent, git |-> Absent]}

\* The version the conversion gives a map entry: the string itself, or of an
\* object its `version`, else its `path` as "path: <path>", else its `git`
\* as "git: <url>" or "git: <url>@<ref>", else "".
DartVersionOf(value) ==
    IF value.kind = "string" \/ value.version # Absent THEN value.version
    ELSE IF value.path # Absent THEN Lit("path: ") \o value.path
    ELSE IF value.git # Absent
    THEN IF OrEmpty(value.git[2]) # <<>>
         THEN Lit("git: ") \o OrEmpty(value.git[1]) \o Lit("@") \o value.git[2]
         ELSE Lit("git: ") \o OrEmpty(value.git[1])
    ELSE <<>>

DartMaps ==
    {[form |-> "map", deps |-> d] :
        d \in MapsOver({Lit("B"), Lit("flutter")}, DartValues)}

\* In the array form `sdk` is a boolean, or absent.
DartArrays ==
    {[form |-> "array", deps |-> a] :
        a \in Arrays({[name |-> n, version |-> Lit("1.9.0"), sdk |-> k] :
                         n \in {Lit("a"), Absent}, k \in {"absent", "true"}})}

\* []DartDependency as the conversion leaves it.
DartDependencies(arg) ==
    IF arg.form = "map"
    THEN {[i \in DOMAIN o |->
              [name |-> o[i], version |-> DartVersionOf(arg.deps[o[i]]),
               sdk |-> DartIsSDK(o[i]), environment |-> DartIsEnv(o[i])]] :
             o \in Orders({n \in DOMAIN arg.deps : arg.deps[n].kind # "other"})}
    ELSE {LET kept == SelectSeq(arg.deps, LAMBDA d : d.name # Absent)
          IN  [i \in DOMAIN kept |->
                 [name |-> kept[i].name, version |-> kept[i].version,
                  sdk |-> IF kept[i].sdk = "absent" THEN DartIsSDK(kept[i].name)
                          ELSE kept[i].sdk = "true",
                  environment |-> DartIsEnv(kept[i].name)]]}

\* The entries of the map form that name an SDK package by an object
\* without a version.
DartFiltered(arg) ==
    IF arg.form = "map"
    THEN {e \in MapInput(arg) :
            /\ DartIsSDK(e.name) \/ DartIsEnv(e.name)
            /\ e.value.kind = "object" /\ e.value.version = Absent}
    ELSE {}

\* The loop and the sort, once the argument is converted.
DartServe(arg) ==
    \E dependencies \in DartDependencies(arg) :
    \E outs \in [DOMAIN dependencies -> Outcomes] :
       /\ \A i \in DOMAIN dependencies :
             (DartSpecial(dependencies[i])
                \/ DartKey(dependencies[i].name) \in DOMAIN cache
                \/ dependencies[i].name \in DartSdkNames)
             => outs[i] = Failure
       /\ \E done \in
             {Range(DartOne, dependencies, outs, NoPass(cache))} :
          \E sorted \in SortByName(done.results) :
             /\ Stored(done.cache)
             /\ call' = Requested(Served("check_dart_versions", sorted, MapInput(arg),
                                          DartFiltered(arg), done), arg)

\* DartHandler.GetLatestVersion.
DartGetLatestVersions ==
    /\ session = "dart"
    /\ call.tool = "none"
    /\ \/ Refuse("check_dart_versions",
                 {"missing required parameter: dependencies",
                  "invalid dependencies format: expected object or array, got %T"})
       \/ \E arg \in DartMaps : DartServe(arg)
       \/ \E arg \in DartArrays : DartServe(arg)
    /\ UNCHANGED others

\* ------------------------------------------------------------------------
\* Swift packages (internal/handlers/swift.go).

SwiftKey(packageURL) == <<"swift", packageURL>>

\* The URL is one for which getLatestVersion issues a request.
SwiftResolvable(packageURL) ==
    Contains(packageURL, Lit("github.com")) /\ Len(Split(packageURL, 47)) >= 5

\* The releases GitHub lists for the repository of the package.
SwiftReleases ==
    << [tag_name |-> Lit("v3.0.0"), draft |-> FALSE, prerelease |-> TRUE],
       [tag_name |-> Lit("v1.9.0"), draft |-> FALSE, prerelease |-> FALSE],
       [tag_name |-> Lit("v2.0.0"), draft |-> FALSE, prerelease |-> FALSE],
       [tag_name |-> Lit("v1.10.0"), draft |-> FALSE, prerelease |-> FALSE] >>

\* result > 0 of a comparison that did not fail.
Higher(cmp) == ~cmp.err /\ cmp.result > 0

\* One pass of the loop over the releases: latestVersion after the release.
SwiftLatestAfter(release, version, latestVersion) ==
    IF release.draft \/ release.prerelease THEN latestVersion
    ELSE IF latestVersion = Lit("") THEN version
    ELSE IF Higher(CompareVersions(version, latestVersion)) THEN version
    ELSE latestVersion

\* The loop over the releases: the highest version among those that are
\* neither draft nor prerelease, "" when there is none.
RECURSIVE SwiftLatestRelease(_, _)
SwiftLatestRelease(releases, latestVersion) ==
    IF releases = <<>> THEN latestVersion
    ELSE SwiftLatestRelease(Tail(releases),
            SwiftLatestAfter(Head(releases), TrimPrefix(Head(releases).tag_name, Lit("v")),
                             latestVersion))

\* A repository whose releases are all prereleases, and its tags.
SwiftUnreleased == << [tag_name |-> Lit("v3.0.0"), draft |-> FALSE, prerelease |-> TRUE] >>

SwiftTags == << Lit("v1.9.0"), Lit("v1.10.0") >>

\* The loop over the tags, entered when the releases left latestVersion "":
\* the same pass as for a release, a tag being neither draft nor prerelease.
RECURSIVE SwiftLatestTag(_, _)
SwiftLatestTag(tags, latestVersion) ==
    IF tags = <<>> THEN latestVersion
    ELSE SwiftLatestTag(Tail(tags),
            SwiftLatestAfter([draft |-> FALSE, prerelease |-> FALSE],
                             TrimPrefix(Head(tags), Lit("v")), latestVersion))

\* The return of the exchanges: "no releases or tags found" for "".
SwiftFound(latestVersion) ==
    IF latestVersion = Lit("") THEN Failure ELSE [err |-> FALSE, version |-> latestVersion]

\* The exchanges with GitHub for one package and their decoding: a request
\* fails, or the releases hold a version, or they hold none and the tags are
\* asked for.
SwiftOutcomes ==
    { Failure,
      SwiftFound(SwiftLatestRelease(SwiftReleases, Lit(""))),
      SwiftFound(SwiftLatestTag(SwiftTags, SwiftLatestRelease(SwiftUnreleased, Lit("")))),
      SwiftFound(SwiftLatestTag(<<>>, SwiftLatestRelease(SwiftUnreleased, Lit("")))) }

\* getLatestVersion: cache, else, for a GitHub URL with owner and repository,
\* the highest release, or tag, of the repository.
SwiftGetLatestVersion(c, packageURL, out) ==
    IF SwiftKey(packageURL) \notin DOMAIN c /\ ~SwiftResolvable(packageURL)
    THEN [err |-> TRUE, version |-> <<>>, cache |-> c, fetched |-> {}]
    ELSE Lookup(c, SwiftKey(packageURL), out)

\* strconv-style decimal text of a natural number, as %d prints it.
RECURSIVE Itoa(_)
Itoa(n) == IF n < 10 THEN <<48 + n>> ELSE Itoa(n \div 10) \o <<48 + (n % 10)>>

\* The major-version constraint: when the latest is of a later major, the
\* text "<major>.0.0".
SwiftApplyMajor(latestVersion, targetMajor) ==
    LET latest == ParseVersion(latestVersion)
    IN  IF ~latest.err /\ latest.major > targetMajor
        THEN Itoa(targetMajor) \o Lit(".0.0")
        ELSE latestVersion

\* One pass of the loop over the converted dependencies.
SwiftOne(c, dep, constraints, out) ==
    LET got == SwiftGetLatestVersion(c, dep.url, out)
        pinned == IF dep.url \in DOMAIN constraints /\ constraints[dep.url].hasMajor
                  THEN SwiftApplyMajor(got.version, constraints[dep.url].major)
                  ELSE got.version
    IN  IF Excluded(constraints, dep.url)
        THEN [NoPass(c) EXCEPT !.results =
                 <<PackageVersion(dep.url, <<>>, <<>>, "", TRUE,
                                  "Package excluded by constraints")>>]
        ELSE IF got.err
        THEN [results |-> <<PackageVersion(dep.url, StringPtr(dep.version), Lit("unknown"),
                                           "swift", TRUE, "Failed to fetch package info: %v")>>,
              cache |-> got.cache, fetched |-> got.fetched, failed |-> {dep.url},
              notes |-> <<>>]
        ELSE [results |-> <<PackageVersion(dep.url, StringPtr(dep.version), pinned,
                                           "swift", FALSE, "")>>,
              cache |-> got.cache, fetched |-> got.fetched, failed |-> {}, notes |-> <<>>]

SwiftEntries ==
    {[url |-> u, version |-> OrEmpty(Absent)] :
        u \in {Lit("https://github.com/o/B"), Lit("https://gitlab.com/o/a"), Absent}}

\* The conversion to []SwiftDependency.
SwiftDeps(arr) == SelectSeq(arr, LAMBDA d : d.url # Absent)

\* SwiftHandler.GetLatestVersion.
SwiftGetLatestVersions ==
    /\ session = "swift"
    /\ call.tool = "none"
    /\ \/ Refuse("check_swift_versions", {"missing required parameter: dependencies",
                                          "invalid dependencies format: expected array"})
       \/ \E arr \in Arrays(SwiftEntries) :
          \E constraints \in MapsOver({d.url : d \in Elements(SwiftDeps(arr))}, Constraints) :
          \E outs \in [DOMAIN SwiftDeps(arr) -> SwiftOutcomes] :
             LET deps == SwiftDeps(arr)
             IN  /\ \A i \in DOMAIN deps :
                       (Excluded(constraints, deps[i].url)
                          \/ SwiftKey(deps[i].url) \in DOMAIN cache
                          \/ ~SwiftResolvable(deps[i].url))
                       => outs[i] = Failure
                 /\ \E done \in
                       {Range(LAMBDA c, d, o : SwiftOne(c, d, constraints, o),
                              deps, outs, NoPass(cache))} :
                    \E sorted \in SortByName(done.results) :
                       /\ Stored(done.cache)
                       /\ call' = Constrained(Served("check_swift_versions", sorted,
                                                   Elements(arr), {}, done), constraints)
    /\ UNCHANGED others

\* ------------------------------------------------------------------------
\* Composer packages (internal/handlers/composer.go).

PackagistKey(vendor, package) == <<"packagist", vendor \o Lit("/") \o package>>

\* The endpoints of a package, in the order of the `endpoints` slice:
\* packagistPackageURL, packagistAPIURL, packagistMetaURL.
Endpoints == <<"packagist.org/packages", "packagist.org/p2", "repo.packagist.org/p2">>

\* packagistSearchURL.
SearchURL == "packagist.org/search.json"

\* strings.EqualFold, of ASCII texts.
EqualFold(s, t) == ToLower(s) = ToLower(t)

\* The name with the case of each letter changed.
SwapCase(s) ==
    [i \in 1..Len(s) |-> IF s[i] \in 65..90 THEN s[i] + 32
                         ELSE IF s[i] \in 97..122 THEN s[i] - 32 ELSE s[i]]

\* What Packagist may answer for one package:
\*   first    the first of the endpoints to answer, 0 when none does
\*   search   the answer of the search: "error" (the request or the decode
\*            fails), "none" (total 0 or no result), "other" (results, none
\*            of the name), "folded" (a result of the name in another letter
\*            case), "exact" (a result of the name as requested)
\*   retry    the package URL answers when it is requested again
\*   version  the newest version of the body that is not a dev version,
\*            "" when the body does not decode or holds no stable version
\* An exchange that does not take place has no answer drawn for it.
ComposerFailure == [first |-> 0, search |-> "error", retry |-> FALSE, version |-> Lit("")]

ComposerOutcomes ==
    {[first |-> n, search |-> "error", retry |-> FALSE, version |-> v] :
        n \in 1..3, v \in {Lit("2.0.0"), Lit("")}}
    \cup {[first |-> 0, search |-> a, retry |-> FALSE, version |-> Lit("")] :
            a \in {"error", "none", "other", "folded", "exact"}}
    \cup {[first |-> 0, search |-> a, retry |-> TRUE, version |-> v] :
            a \in {"folded", "exact"}, v \in {Lit("2.0.0"), Lit("")}}

\* searchResponse.Results, as names.
SearchResults(name, answer) ==
    CASE answer = "other" -> <<Lit("other/x")>>
      [] answer = "folded" -> <<Lit("other/x"), SwapCase(name)>>
      [] answer = "exact" -> <<Lit("other/x"), name>>
      [] OTHER -> <<>>

FetchLatestVersionRetryUnmatched(c, vendor, package, out) ==
    LET cacheKey == PackagistKey(vendor, package)
        cached == Load(c, cacheKey)
        name == vendor \o Lit("/") \o package
        succeeded == out.first \in 1..3
        tried == [i \in 1..(IF succeeded THEN out.first ELSE 3) |->
                     [url |-> Endpoints[i], ok |-> i = out.first]]
        results == SearchResults(name, out.search)
        confirmed == ~succeeded /\ out.search # "error" /\ results # <<>>
        requests == tried
                    \o (IF succeeded THEN <<>>
                        ELSE <<[url |-> SearchURL, ok |-> out.search # "error"]>>)
                    \o (IF confirmed THEN <<[url |-> Endpoints[1], ok |-> out.retry]>>
                        ELSE <<>>)
        body == succeeded \/ (confirmed /\ out.retry)
        latestVersion == IF body THEN out.version ELSE Lit("")
    IN  IF cached.ok
        THEN [err |-> FALSE, version |-> cached.value, cache |-> c, fetched |-> {},
              requests |-> <<>>, found |-> <<>>]
        ELSE IF latestVersion = Lit("")
        THEN [err |-> TRUE, version |-> <<>>, cache |-> c, fetched |-> {cacheKey},
              requests |-> requests, found |-> results]
        ELSE [err |-> FALSE, version |-> latestVersion,
              cache |-> Store(c, cacheKey, latestVersion), fetched |-> {cacheKey},
              requests |-> requests, found |-> results]

\* fetchLatestVersion: cache, else the endpoints in order until one answers;
\* when none does, the search and, when a result bears the name, the package
\* URL once more; then the most recently released version of the body that
\* is not a dev version, which is stored.
FetchLatestVersion(c, vendor, package, out) ==
    LET cacheKey == PackagistKey(vendor, package)
        cached == Load(c, cacheKey)
        name == vendor \o Lit("/") \o package
        succeeded == out.first \in 1..3
        tried == [i \in 1..(IF succeeded THEN out.first ELSE 3) |->
                     [url |-> Endpoints[i], ok |-> i = out.first]]
        results == SearchResults(name, out.search)
        exactMatch == \E i \in DOMAIN results : EqualFold(results[i], name)
        confirmed == ~succeeded /\ out.search # "error" /\ results # <<>> /\ exactMatch
        requests == tried
                    \o (IF succeeded THEN <<>>
                        ELSE <<[url |-> SearchURL, ok |-> out.search # "error"]>>)
                    \o (IF confirmed THEN <<[url |-> Endpoints[1], ok |-> out.retry]>>
                        ELSE <<>>)
        body == succeeded \/ (confirmed /\ out.retry)
        latestVersion == IF body THEN out.version ELSE Lit("")
    IN  IF cached.ok
        THEN [err |-> FALSE, version |-> cached.value, cache |-> c, fetched |-> {},
              requests |-> <<>>, found |-> <<>>]
        ELSE IF latestVersion = Lit("")
        THEN [err |-> TRUE, version |-> <<>>, cache |-> c, fetched |-> {cacheKey},
              requests |-> requests, found |-> results]
        ELSE [err |-> FALSE, version |-> latestVersion,
              cache |-> Store(c, cacheKey, latestVersion), fetched |-> {cacheKey},
              requests |-> requests, found |-> results]

laravelVendors == {Lit("illuminate"), Lit("spatie"), Lit("filament"), Lit("laravel")}

\* IsLaravelPackage: a name of two parts whose vendor is a Laravel vendor or
\* whose package begins with "laravel-" or "filament-".
IsLaravelPackage(packageName) ==
    LET parts == Split(packageName, 47)
    IN  /\ Len(parts) = 2
        /\ \/ parts[1] \in laravelVendors
           \/ HasPrefix(parts[2], Lit("laravel-"))
           \/ HasPrefix(parts[2], Lit("filament-"))

\* The descriptor of a package whose lookup failed.
ComposerFailed(packageName) ==
    PackageVersion(packageName, <<>>, <<>>, "", TRUE, "Failed to fetch version info: %v")

ComposerInvalidNameAsFailed(packageName) == ComposerFailed(packageName)

\* The descriptor of a name that strings.Split does not cut in two parts.
ComposerInvalidName(packageName) ==
    PackageVersion(packageName, <<>>, <<>>, "", TRUE, "Invalid package name format")

\* One pass of the loop over the dependencies.
ComposerOne(c, packageName, currentVersion, constraints, out) ==
    LET parts == Split(packageName, 47)
        got == FetchLatestVersion(c, parts[1], parts[2], out)
        cleanCurrentVersion == TrimLeft(currentVersion, Lit("^~>=<!"))
    IN  IF Excluded(constraints, packageName)
        THEN [NoPass(c) EXCEPT !.results =
                 <<PackageVersion(packageName, <<>>, <<>>, "", TRUE,
                                  "Package excluded by constraints")>>]
        ELSE IF Len(parts) # 2
        THEN [NoPass(c) EXCEPT !.results = <<ComposerInvalidName(packageName)>>]
        ELSE IF got.err
        THEN [results |-> <<ComposerFailed(packageName)>>,
              cache |-> got.cache, fetched |-> got.fetched, failed |-> {packageName},
              notes |-> <<[name |-> packageName, requests |-> got.requests,
                           found |-> got.found]>>]
        ELSE [results |-> <<PackageVersion(packageName, cleanCurrentVersion, got.version,
                                           "packagist", FALSE, "")>>,
              cache |-> got.cache, fetched |-> got.fetched, failed |-> {},
              notes |-> <<[name |-> packageName, requests |-> got.requests,
                           found |-> got.found]>>]

ComposerNames == {Lit("laravel/a"), Lit("Vendor/B"), Lit("invalidname"), Lit("a/b/c")}

\* The dependencies object: versions are strings, but for one that is not.
ComposerMaps ==
    {d \in MapsOver(ComposerNames, {Lit("^1.2.0"), Absent}) :
        \A n \in DOMAIN d : d[n] = Absent => n = Lit("laravel/a")}

\* The package is reported without a lookup.
ComposerUnfetched(constraints, packageName) ==
    Excluded(constraints, packageName) \/ Len(Split(packageName, 47)) # 2

\* ComposerHandler.GetLatestVersion: the results are rendered in the order
\* in which the range over the dependencies appended them.
ComposerGetLatestVersion ==
    /\ session = "composer"
    /\ call.tool = "none"
    /\ \/ Refuse("check_composer_versions", {"missing required parameter: dependencies"})
       \/ \E dependenciesRaw \in ComposerMaps :
          \E order \in Orders({n \in DOMAIN dependenciesRaw : dependenciesRaw[n] # Absent}) :
          \* constraints are read for the packages the loop visits
          \E constraints \in MapsOver(Elements(order), Constraints) :
          \E outs \in [DOMAIN order -> ComposerOutcomes] :
             /\ \A i \in DOMAIN order :
                   (ComposerUnfetched(constraints, order[i])
                      \/ PackagistKey(Split(order[i], 47)[1], Split(order[i], 47)[2])
                            \in DOMAIN cache)
                   => outs[i] = ComposerFailure
             /\ \E done \in
                   {Range(LAMBDA c, n, o :
                             ComposerOne(c, n, dependenciesRaw[n], constraints, o),
                          order, outs, NoPass(cache))} :
                   /\ Stored(done.cache)
                   /\ call' = Constrained(Served("check_composer_versions", done.results,
                                                 {[name |-> n, version |-> dependenciesRaw[n]] :
                                                     n \in DOMAIN dependenciesRaw}, {}, done),
                                          constraints)
    /\ UNCHANGED others

\* ------------------------------------------------------------------------
\* GitHub Actions (internal/handlers/github_actions.go).

ActionKey(owner, repo) == <<"github-action", owner \o Lit("/") \o repo>>

\* GitHubRelease, as far as the resolver reads it.
GitHubRelease(tag_name, draft, prerelease) ==
    [tag_name |-> tag_name, draft |-> draft, prerelease |-> prerelease]

\* A /releases response whose first release that qualifies is neither the
\* first nor the last.
ActionReleased ==
    << GitHubRelease(Lit("v3"), TRUE, FALSE), GitHubRelease(Lit("v1"), FALSE, FALSE),
       GitHubRelease(Lit("v2"), FALSE, FALSE) >>

\* A /releases response without a release that qualifies.
ActionUnreleased == << GitHubRelease(Lit("v3"), FALSE, TRUE) >>

\* The /tags response of a repository.
ActionTags == <<Lit("v4"), Lit("v1")>>

ActionFailure == [err |-> TRUE, releases |-> <<>>, tagsErr |-> FALSE, tags |-> <<>>]

\* The exchanges with GitHub for one repository: /releases fails, or
\* answers, and then, when /tags is requested, /tags fails or answers.
ActionOutcomes ==
    { ActionFailure,
      [err |-> FALSE, releases |-> ActionReleased, tagsErr |-> FALSE, tags |-> ActionTags],
      [err |-> FALSE, releases |-> ActionUnreleased, tagsErr |-> FALSE, tags |-> ActionTags],
      [err |-> FALSE, releases |-> ActionUnreleased, tagsErr |-> TRUE, tags |-> <<>>] }

RECURSIVE ActionLastRelease(_)
ActionLastRelease(releases) ==
    IF releases = <<>> THEN Absent
    ELSE LET release == releases[Len(releases)]
         IN  IF release.draft \/ release.prerelease
             THEN ActionLastRelease(SubSeq(releases, 1, Len(releases) - 1))
             ELSE release.tag_name

\* The loop over the releases: the tag of the first that is neither draft nor
\* prerelease, Absent when the loop ends without one.
RECURSIVE ActionFirstRelease(_)
ActionFirstRelease(releases) ==
    IF releases = <<>> THEN Absent
    ELSE LET release == Head(releases)
         IN  IF release.draft \/ release.prerelease
             THEN ActionFirstRelease(Tail(releases))
             ELSE release.tag_name

\* getLatestVersion: cache, else the first release that is neither a draft
\* nor a prerelease, else the first tag.  The note records what GitHub
\* answered and whether /tags was requested.
ActionGetLatestVersion(c, owner, repo, out) ==
    LET cacheKey == ActionKey(owner, repo)
        cached == Load(c, cacheKey)
        release == ActionFirstRelease(out.releases)
        note(tagsAsked) == <<[owner |-> owner, repo |-> repo, releases |-> out.releases,
                              tagsAsked |-> tagsAsked, tagsErr |-> out.tagsErr,
                              tags |-> out.tags]>>
    IN  IF cached.ok
        THEN [err |-> FALSE, version |-> cached.value, cache |-> c, fetched |-> {},
              notes |-> <<>>]
        ELSE IF out.err
        THEN [err |-> TRUE, version |-> <<>>, cache |-> c, fetched |-> {cacheKey},
              notes |-> <<>>]
        ELSE IF release # Absent
        THEN [err |-> FALSE, version |-> release, cache |-> Store(c, cacheKey, release),
              fetched |-> {cacheKey}, notes |-> note(FALSE)]
        ELSE IF out.tagsErr \/ out.tags = <<>>
        THEN [err |-> TRUE, version |-> <<>>, cache |-> c, fetched |-> {cacheKey},
              notes |-> note(TRUE)]
        ELSE [err |-> FALSE, version |-> out.tags[1],
              cache |-> Store(c, cacheKey, out.tags[1]),
              fetched |-> {cacheKey}, notes |-> note(TRUE)]

\* The result descriptor of the GitHub Actions resolver: publishedAt and url
\* are set when details are asked for.
GitHubActionVersion(owner, repo, currentVersion, latestVersion, detailed) ==
    [owner |-> owner, repo |-> repo, currentVersion |-> currentVersion,
     latestVersion |-> latestVersion, detailed |-> detailed]

\* One pass of the loop over the converted actions.
ActionOne(c, action, includeDetails, out) ==
    LET got == ActionGetLatestVersion(c, action.owner, action.repo, out)
    IN  IF got.err
        THEN [results |-> <<GitHubActionVersion(action.owner, action.repo,
                                                action.currentVersion, Lit("unknown"), FALSE)>>,
              cache |-> got.cache, fetched |-> got.fetched,
              failed |-> {action.owner \o Lit("/") \o action.repo}, notes |-> got.notes]
        ELSE [results |-> <<GitHubActionVersion(action.owner, action.repo,
                                                action.currentVersion, got.version,
                                                includeDetails)>>,
              cache |-> got.cache, fetched |-> got.fetched, failed |-> {},
              notes |-> got.notes]

\* less of the GitHub Actions resolver: by lowercased owner, then by
\* lowercased repo.
ActionLess(x, y) ==
    IF ToLower(x.owner) # ToLower(y.owner)
    THEN StringLess(ToLower(x.owner), ToLower(y.owner))
    ELSE StringLess(ToLower(x.repo), ToLower(y.repo))

\* The outcomes sort.Slice may leave with ActionLess.
SortByOwnerRepo(rs) ==
    {s \in SortSlice(rs) : \A i, j \in 1..Len(s) : i < j => ~ActionLess(s[j], s[i])}

ActionEntries ==
    {[owner |-> o, repo |-> Lit("x"), currentVersion |-> Absent] :
        o \in {Lit("a"), Lit("a-b"), Absent}}

\* The conversion to []GitHubAction.
Actions(arr) ==
    LET kept == SelectSeq(arr, LAMBDA a : a.owner # Absent /\ a.repo # Absent)
    IN  [i \in DOMAIN kept |-> [kept[i] EXCEPT !.currentVersion = OrEmpty(@)]]

\* GitHubActionsHandler.GetLatestVersion.
ActionsGetLatestVersion ==
    /\ session = "github-actions"
    /\ call.tool = "none"
    /\ \/ Refuse("check_github_actions", {"missing required parameter: actions",
                                          "invalid actions format: expected array"})
       \/ \E arr \in Arrays(ActionEntries) :
          \E includeDetails \in BOOLEAN :
          \E outs \in [DOMAIN Actions(arr) -> ActionOutcomes] :
             LET actions == Actions(arr)
             IN  /\ \A i \in DOMAIN actions :
                       ActionKey(actions[i].owner, actions[i].repo) \in DOMAIN cache
                       => outs[i] = ActionFailure
                 /\ \E done \in
                       {Range(LAMBDA c, a, o : ActionOne(c, a, includeDetails, o),
                              actions, outs, NoPass(cache))} :
                    \E sorted \in SortByOwnerRepo(done.results) :
                       /\ Stored(done.cache)
                       /\ call' = Served("check_github_actions", sorted, Elements(arr), {}, done)
    /\ UNCHANGED others

\* ------------------------------------------------------------------------

Sessions == {"npm", "python", "java", "go", "rust", "dart", "swift",
             "composer", "github-actions", "docker"}

\* ------------------------------------------------------------------------
\* The clock, and the handlers as time passes.

\* CacheTTL, in hours.
CacheTTL == 12

\* The clock is read every TickHours hours, up to MaxClock.
TickHours == 6
MaxClock == 18

Tick ==
    /\ now < MaxClock
    /\ now' = now + TickHours
    /\ UNCHANGED <<resolverVars, ttlVars, concVars, serverVars, cleaned>>

\* ------------------------------------------------------------------------
\* package cache: the Cache with expiration.

Nil == "nil"

\* NewCache.
NewCache(ttl) == [data |-> EmptyMap, times |-> EmptyMap, ttl |-> ttl]

\* time.Since(t), read at hour `at`.
Since(t, at) == at - t

\* Get with the entry expiring as soon as its age reaches the TTL.
GetExpiringAtTtl(c, key, at) ==
    IF key \notin DOMAIN c.data THEN [value |-> Nil, found |-> FALSE]
    ELSE IF Since(c.times[key], at) >= c.ttl THEN [value |-> Nil, found |-> FALSE]
    ELSE [value |-> c.data[key], found |-> TRUE]

\* Cache.Get at hour `at`: (value, found).
Get(c, key, at) ==
    IF key \notin DOMAIN c.data THEN [value |-> Nil, found |-> FALSE]
    ELSE IF Since(c.times[key], at) > c.ttl THEN [value |-> Nil, found |-> FALSE]
    ELSE [value |-> c.data[key], found |-> TRUE]

\* Cache.Set at hour `at`.
Set(c, key, val, at) ==
    [c EXCEPT !.data = Store(c.data, key, val), !.times = Store(c.times, key, at)]

CacheKeys == {"npm:a", "npm:B"}
CacheValues == {"v1", "v2"}

\* A caller sets a key.
CacheSet ==
    /\ session = "cache"
    /\ \E key \in CacheKeys, val \in CacheValues :
          /\ pkgCache' = Set(pkgCache, key, val, now)
          /\ lastSet' = Store(lastSet, key, [value |-> val, at |-> now])
    /\ UNCHANGED <<lastGet, now, resolverVars, concVars, serverVars, cleaned>>

\* A caller gets a key; what Get returned is kept next to the last Set of
\* the key, if there was one.
CacheGet ==
    /\ session = "cache"
    /\ \E key \in CacheKeys :
          lastGet' = [key |-> key, at |-> now,
                      value |-> Get(pkgCache, key, now).value,
                      found |-> Get(pkgCache, key, now).found,
                      set |-> key \in DOMAIN lastSet,
                      setValue |-> IF key \in DOMAIN lastSet THEN lastSet[key].value ELSE Nil,
                      setAt |-> IF key \in DOMAIN lastSet THEN lastSet[key].at ELSE 0]
    /\ UNCHANGED <<pkgCache, lastSet, now, resolverVars, concVars, serverVars, cleaned>>

\* ------------------------------------------------------------------------
\* Two check_npm_versions requests served concurrently, statement by
\* statement.  Each request runs NpmHandler.GetLatestVersion in a goroutine of
\* its own, with a context the protocol layer may cancel; the sync.Map is
\* the one state they share.

Requests == {1, 2}

\* The request moves on to its next dependency, or leaves the loop.
Advance(req, result) ==
    [req EXCEPT !.results = Append(@, result),
                !.i = @ + 1,
                !.pc = IF req.i = Len(req.deps) THEN "sort" ELSE "load"]

\* The dispatcher hands the request, and its context, to the handler.
Begin(r) ==
    /\ session = "npm-concurrent"
    /\ r \notin DOMAIN running
    /\ \E names \in SUBSET NpmNames :
       \E deps \in Orders(names) :
          /\ Cardinality(names) <= MaxDeps
          /\ running' = Store(running, r,
                [pc |-> IF deps = <<>> THEN "sort" ELSE "load", deps |-> deps, i |-> 1,
                 info |-> <<>>, results |-> <<>>, cancelled |-> FALSE,
                 reply |-> Refused("check_npm_versions", "")])
    /\ UNCHANGED <<session, cache, call, stamps, now, ttlVars, writes, serverVars, cleaned>>

\* getPackageInfo, the cache.Load: a hit returns the cached info.
ConcLoad(r) ==
    /\ r \in DOMAIN running
    /\ running[r].pc = "load"
    /\ LET req == running[r]
           name == req.deps[req.i]
           cached == Load(cache, NpmKey(name))
       IN  running' = [running EXCEPT ![r] =
              IF cached.ok
              THEN Advance(req, NpmResult(name, CleanVersion(Lit("^1.2.0")), EmptyMap,
                                          FALSE, cached.value))
              ELSE [req EXCEPT !.pc = "fetch"]]
    /\ UNCHANGED <<session, cache, call, stamps, now, ttlVars, writes, serverVars, cleaned>>

\* getPackageInfo, MakeRequestWithLogger and the decode: an error ends the
\* pass with the failure descriptor.
ConcFetch(r) ==
    /\ r \in DOMAIN running
    /\ running[r].pc = "fetch"
    /\ \E out \in NpmOutcomes :
          LET req == running[r]
              name == req.deps[req.i]
          IN  running' = [running EXCEPT ![r] =
                 IF out.err
                 THEN Advance(req, NpmResult(name, CleanVersion(Lit("^1.2.0")), EmptyMap,
                                             TRUE, <<>>))
                 ELSE [req EXCEPT !.pc = "store", !.info = out.info]]
    /\ UNCHANGED <<session, cache, call, stamps, now, ttlVars, writes, serverVars, cleaned>>

\* getPackageInfo, the cache.Store, and the rest of the pass.
ConcStore(r) ==
    /\ r \in DOMAIN running
    /\ running[r].pc = "store"
    /\ LET req == running[r]
           name == req.deps[req.i]
       IN  /\ cache' = Store(cache, NpmKey(name), req.info)
           /\ stamps' = [k \in DOMAIN cache' |-> IF k = NpmKey(name) THEN now ELSE stamps[k]]
           /\ writes' = Append(writes, [key |-> NpmKey(name), value |-> req.info, by |-> r])
           /\ running' = [running EXCEPT ![r] =
                 Advance(req, NpmResult(name, CleanVersion(Lit("^1.2.0")), EmptyMap,
                                        FALSE, req.info))]
    /\ UNCHANGED <<session, call, now, ttlVars, serverVars, cleaned>>

\* The sort and the return of NewToolResultJSON(results).
ConcReturn(r) ==
    /\ r \in DOMAIN running
    /\ running[r].pc = "sort"
    /\ \E sorted \in SortByName(running[r].results) :
          running' = [running EXCEPT ![r] =
             [@ EXCEPT !.pc = "done",
                       !.reply = Served("check_npm_versions", sorted,
                                        Elements(running[r].deps), {}, NoPass(cache))]]
    /\ UNCHANGED <<session, cache, call, stamps, now, ttlVars, writes, serverVars, cleaned>>

\* The protocol layer cancels the context of a request in flight.  No
\* statement of the handler reads the context.
Cancel(r) ==
    /\ r \in DOMAIN running
    /\ running[r].pc # "done"
    /\ ~running[r].cancelled
    /\ running' = [running EXCEPT ![r].cancelled = TRUE]
    /\ UNCHANGED <<session, cache, call, stamps, now, ttlVars, writes, serverVars, cleaned>>

\* ------------------------------------------------------------------------
\* Docker image tags (internal/handlers/docker.go).

\* DockerImageVersion; digest and size are pointers, Nil when not set.
DockerImageVersion(name, tag, registry, digest, size) ==
    [name |-> name, tag |-> tag, registry |-> registry, digest |-> digest, size |-> size]

\* regexp.Compile, for the patterns the requests use: "(" does not compile.
Compiles(pattern) == pattern # Lit("(")

\* Regexp.MatchString, for the patterns the requests use: a literal matches
\* anywhere in the tag, a literal after ^ at the start of the tag.
MatchString(pattern, tag) ==
    IF HasPrefix(pattern, Lit("^")) THEN HasPrefix(tag, TrimPrefix(pattern, Lit("^")))
    ELSE Contains(tag, pattern)

\* The loop of filterTags: a tag that no compilable pattern matches is
\* passed over; the loop ends once the tag it appended brought the length to
\* the limit.
RECURSIVE FilterLoop(_, _, _, _)
FilterLoop(tags, limit, filterTags, filteredTags) ==
    IF tags = <<>> THEN filteredTags
    ELSE LET tag == Head(tags)
             match == \E i \in DOMAIN filterTags :
                         Compiles(filterTags[i]) /\ MatchString(filterTags[i], tag.tag)
         IN  IF filterTags # <<>> /\ ~match
             THEN FilterLoop(Tail(tags), limit, filterTags, filteredTags)
             ELSE IF Len(filteredTags) + 1 >= limit
             THEN Append(filteredTags, tag)
             ELSE FilterLoop(Tail(tags), limit, filterTags, Append(filteredTags, tag))

\* DockerHandler.filterTags.
FilterTags(tags, limit, filterTags) ==
    IF filterTags = <<>> /\ limit >= Len(tags) THEN tags
    ELSE FilterLoop(tags, limit, filterTags, <<>>)

\* What Docker Hub answers for the image: its tags, each with the digests of
\* its images.
DockerHubResults ==
    << [name |-> Lit("latest"), images |-> <<"sha256:1">>],
       [name |-> Lit("1.10.0"), images |-> <<>>],
       [name |-> Lit("1.9.0"), images |-> <<"sha256:2">>] >>

\* What GHCR answers for the image.
GHCRTags == <<Lit("latest"), Lit("1.9.0")>>

\* getDockerHubTags; failed is the outcome of the HTTP exchange and decode.
GetDockerHubTags(c, image, limit, filterTags, includeDigest, failed) ==
    LET cacheKey == <<"dockerhub", image>>
        cachedTags == Load(c, cacheKey)
        tags == [i \in DOMAIN DockerHubResults |->
                    LET result == DockerHubResults[i]
                    IN  DockerImageVersion(image, result.name, Lit("dockerhub"),
                           IF includeDigest /\ Len(result.images) > 0
                           THEN result.images[1] ELSE Nil,
                           IF Len(result.images) > 0 THEN "size" ELSE Nil)]
    IN  IF cachedTags.ok
        THEN [err |-> "", tags |-> FilterTags(cachedTags.value, limit, filterTags),
              cache |-> c, fetched |-> {}]
        ELSE IF failed
        THEN [err |-> "failed to fetch Docker Hub tags: %w", tags |-> <<>>,
              cache |-> c, fetched |-> {cacheKey}]
        ELSE [err |-> "", tags |-> FilterTags(tags, limit, filterTags),
              cache |-> Store(c, cacheKey, tags), fetched |-> {cacheKey}]

\* getGHCRTags.
GetGHCRTags(c, image, limit, filterTags, includeDigest, failed) ==
    LET cacheKey == <<"ghcr", image>>
        cachedTags == Load(c, cacheKey)
        prefixed == IF HasPrefix(image, Lit("ghcr.io/")) THEN image
                    ELSE Lit("ghcr.io/") \o image
        parts == Split(TrimPrefix(prefixed, Lit("ghcr.io/")), 47)
        tags == [i \in DOMAIN GHCRTags |->
                    DockerImageVersion(prefixed, GHCRTags[i], Lit("ghcr"), Nil, Nil)]
    IN  IF cachedTags.ok
        THEN [err |-> "", tags |-> FilterTags(cachedTags.value, limit, filterTags),
              cache |-> c, fetched |-> {}]
        ELSE IF Len(parts) < 2
        THEN [err |-> "invalid GHCR image format: %s", tags |-> <<>>,
              cache |-> c, fetched |-> {}]
        ELSE IF failed
        THEN [err |-> "failed to fetch GHCR tags: %w", tags |-> <<>>,
              cache |-> c, fetched |-> {cacheKey}]
        ELSE [err |-> "", tags |-> FilterTags(tags, limit, filterTags),
              cache |-> Store(c, cacheKey, tags), fetched |-> {cacheKey}]

\* getCustomRegistryTags: one tag, whatever the limit and the patterns.
GetCustomRegistryTags(c, image, registry, limit, filterTags, includeDigest) ==
    [err |-> "", tags |-> <<DockerImageVersion(image, Lit("latest"), registry, Nil, Nil)>>,
     cache |-> c, fetched |-> {}]

\* limit when the request has none.
DefaultLimit == 10

DockerRegistryIgnored(registryRaw) == Lit("dockerhub")

\* registry: "dockerhub" unless the argument is a non-empty string.
DockerRegistry(registryRaw) ==
    IF registryRaw \in {Absent, Lit("")} THEN Lit("dockerhub") ELSE registryRaw

\* The arguments as GetLatestVersion parses them, and the switch on registry.
DockerTags(c, args, failed) ==
    LET image == args.image
        registry == DockerRegistry(args.registry)
        customRegistry == OrEmpty(args.customRegistry)
        limit == IF args.limit.given THEN args.limit.value ELSE DefaultLimit
        filterTags == SelectSeq(args.filterTags, LAMBDA t : t # Absent)
        refused(e) == [err |-> e, tags |-> <<>>, cache |-> c, fetched |-> {}]
    IN  IF image \in {Absent, Lit("")}
        THEN refused("missing required parameter: image")
        ELSE IF registry = Lit("dockerhub")
        THEN GetDockerHubTags(c, image, limit, filterTags, args.includeDigest, failed)
        ELSE IF registry = Lit("ghcr")
        THEN GetGHCRTags(c, image, limit, filterTags, args.includeDigest, failed)
        ELSE IF registry = Lit("custom")
        THEN IF customRegistry = Lit("")
             THEN refused("missing required parameter for custom registry: customRegistry")
             ELSE GetCustomRegistryTags(c, image, customRegistry, limit, filterTags,
                                        args.includeDigest)
        ELSE refused("invalid registry: %s")

\* `registry` with `customRegistry`; the latter is given with custom only.
DockerRegistries ==
    {<<r, Absent>> : r \in {Absent, Lit(""), Lit("dockerhub"), Lit("ghcr"), Lit("quay")}}
        \cup {<<Lit("custom"), k>> : k \in {Absent, Lit(""), Lit("r.io")}}

\* `limit`: absent, or a number.
DockerLimits ==
    {[given |-> FALSE, value |-> 0], [given |-> TRUE, value |-> 0],
     [given |-> TRUE, value |-> 1]}

\* `filterTags`: absent or empty, or an array of patterns; an element that
\* is not a string is left out by the conversion.
DockerFilters == {<<>>, <<Absent, Lit("^1")>>, <<Lit("("), Lit("t")>>}

\* The requests: for an image, every combination of the other arguments;
\* without an image, every registry.
DockerRequests ==
    {[image |-> Lit("o/a"), registry |-> r[1], customRegistry |-> r[2], limit |-> l,
      filterTags |-> f, includeDigest |-> d] :
        r \in DockerRegistries, l \in DockerLimits, f \in DockerFilters, d \in BOOLEAN}
    \cup
    {[image |-> i, registry |-> r[1], customRegistry |-> r[2],
      limit |-> [given |-> FALSE, value |-> 0], filterTags |-> <<>>,
      includeDigest |-> FALSE] :
        i \in {Absent, Lit("")}, r \in DockerRegistries}

\* DockerHandler.GetLatestVersion.
DockerGetLatestVersion ==
    /\ session = "docker"
    /\ call.tool = "none"
    /\ \E args \in DockerRequests :
       \E failed \in BOOLEAN :
       \E reply \in {DockerTags(cache, args, failed)} :
          \* no outcome is drawn for an exchange that does not take place
          /\ reply.fetched = {} => failed
          /\ Stored(reply.cache)
          /\ call' = [tool |-> "check_docker_tags", err |-> reply.err,
                      results |-> reply.tags, input |-> {}, exempt |-> {},
                      failed |-> {}, fetched |-> reply.fetched, notes |-> <<>>,
                      constraints |-> EmptyMap, request |-> args]
    /\ UNCHANGED others

\* ------------------------------------------------------------------------
\* The server (pkg/server): the tool catalogue and Start.

\* The schema of a property, as far as the catalogue is read: its type and
\* what it declares under "items".
NoItems == [declared |-> FALSE, object |-> FALSE, type |-> ""]

\* mcp.Items(map[string]interface{}{"type": t}).
Items(t) == [declared |-> TRUE, object |-> TRUE, type |-> t]

WithObject == [type |-> "object", items |-> NoItems]
WithString == [type |-> "string", items |-> NoItems]
WithNumber == [type |-> "number", items |-> NoItems]
WithBoolean == [type |-> "boolean", items |-> NoItems]
WithArray(items) == [type |-> "array", items |-> items]

NoProperties == [k \in {} |-> WithObject]

\* mcp.NewTool.
NewTool(name, properties) == [name |-> name, properties |-> properties]

\* MCPServer.AddTool: the tool is registered under its name.
AddTool(srv, tool) ==
    [n \in DOMAIN srv \cup {tool.name} |->
        IF n = tool.name THEN tool.properties ELSE srv[n]]

registerNpmTool(srv) ==
    AddTool(srv, NewTool("check_npm_versions",
                         ("dependencies" :> WithObject) @@ ("constraints" :> WithObject)))

pyprojectTool == NewTool("check_pyproject_versions", ("dependencies" :> WithObject))

registerPythonToolsWithoutItems(srv) ==
    AddTool(AddTool(srv, NewTool("check_python_versions",
                                 ("requirements" :> WithArray(NoItems)))),
            pyprojectTool)

registerPythonTools(srv) ==
    AddTool(AddTool(srv, NewTool("check_python_versions",
                                 ("requirements" :> WithArray(Items("string"))))),
            pyprojectTool)

registerJavaTools(srv) ==
    AddTool(AddTool(srv, NewTool("check_maven_versions",
                                 ("dependencies" :> WithArray(Items("object"))))),
            NewTool("check_gradle_versions", ("dependencies" :> WithArray(Items("object")))))

registerGoTool(srv) ==
    AddTool(srv, NewTool("check_go_versions", ("dependencies" :> WithObject)))

registerRustTool(srv) ==
    AddTool(srv, NewTool("check_rust_versions", ("dependencies" :> WithObject)))

registerDartTool(srv) ==
    AddTool(srv, NewTool("check_dart_versions", ("dependencies" :> WithObject)))

registerBedrockTools(srv) ==
    AddTool(AddTool(srv, NewTool("check_bedrock_models",
                                 ("action" :> WithString) @@ ("query" :> WithString)
                                    @@ ("provider" :> WithString) @@ ("region" :> WithString)
                                    @@ ("modelId" :> WithString))),
            NewTool("get_latest_bedrock_model", NoProperties))

registerDockerTool(srv) ==
    AddTool(srv, NewTool("check_docker_tags",
                         ("image" :> WithString) @@ ("registry" :> WithString)
                            @@ ("customRegistry" :> WithString) @@ ("limit" :> WithNumber)
                            @@ ("filterTags" :> WithArray(Items("string")))
                            @@ ("includeDigest" :> WithBoolean)))

registerSwiftTool(srv) ==
    AddTool(srv, NewTool("check_swift_versions",
                         ("dependencies" :> WithArray(Items("object")))
                            @@ ("constraints" :> WithObject)))

registerGitHubActionsTool(srv) ==
    AddTool(srv, NewTool("check_github_actions",
                         ("actions" :> WithArray(Items("object")))
                            @@ ("includeDetails" :> WithBoolean)))

\* Defined in pkg/server/composer.go; Initialize does not call it.
registerComposerTool(srv) ==
    AddTool(srv, NewTool("check_composer_versions",
                         ("dependencies" :> WithObject) @@ ("constraints" :> WithObject)))

\* mcpserver.NewMCPServer: a server without tools.
NewMCPServer == [n \in {} |-> NoProperties]

\* PackageVersionServer.Initialize: the register calls, in their order.
Initialize(srv) ==
    registerGitHubActionsTool(registerSwiftTool(registerDockerTool(registerBedrockTools(
        registerDartTool(registerRustTool(registerGoTool(registerJavaTools(
            registerPythonTools(registerNpmTool(srv))))))))))

\* Start has not been called.
NotStarted == [pc |-> "idle", transport |-> "", ret |-> "none"]

Transports == {"sse", "stdio"}

\* What the transport's goroutine sends on errCh when its server returns an
\* error.
TransportError(transport) ==
    IF transport = "sse" THEN "SSE server error: %w" ELSE "STDIO server error: %w"

\* Start, from its call to the receive from sigCh: the server is created and
\* initialized, sigCh and errCh are made, the goroutine of the transport is
\* started.
Start ==
    /\ session = "server"
    /\ start.pc = "idle"
    /\ \E transport \in Transports :
          start' = [pc |-> "sigCh", transport |-> transport, ret |-> "none"]
    /\ tools' = Initialize(NewMCPServer)
    /\ serve' = "running"
    /\ errCh' = <<>>
    /\ sigCh' = <<>>
    /\ UNCHANGED <<dispatch, resolverVars, now, ttlVars, concVars, cleaned>>

\* The process is sent SIGINT or SIGTERM: signal.Notify's relay sends on
\* sigCh without blocking, and drops the signal when the channel is full.
Signal ==
    /\ start.pc \notin {"idle", "returned"}
    /\ sigCh = <<>>
    /\ \E sig \in {"SIGINT", "SIGTERM"} : sigCh' = <<sig>>
    /\ UNCHANGED <<tools, start, serve, errCh, dispatch, resolverVars, now, ttlVars, concVars, cleaned>>

\* <-sigCh, then cancel().
AwaitSignal ==
    /\ start.pc = "sigCh"
    /\ sigCh # <<>>
    /\ sigCh' = Tail(sigCh)
    /\ start' = [start EXCEPT !.pc = "send"]
    /\ UNCHANGED <<tools, serve, errCh, dispatch, resolverVars, now, ttlVars, concVars, cleaned>>

\* errCh <- nil: the send waits while the channel is full.
SendNil ==
    /\ start.pc = "send"
    /\ Len(errCh) < 1
    /\ errCh' = Append(errCh, "nil")
    /\ start' = [start EXCEPT !.pc = "receive"]
    /\ UNCHANGED <<tools, serve, sigCh, dispatch, resolverVars, now, ttlVars, concVars, cleaned>>

\* return <-errCh.
Return ==
    /\ start.pc = "receive"
    /\ errCh # <<>>
    /\ start' = [start EXCEPT !.pc = "returned", !.ret = Head(errCh)]
    /\ errCh' = Tail(errCh)
    /\ UNCHANGED <<tools, serve, sigCh, dispatch, resolverVars, now, ttlVars, concVars, cleaned>>

\* sseServer.Start or ServeStdio returns an error (the listener cannot bind
\* its port, the transport breaks).
TransportFails ==
    /\ serve = "running"
    /\ serve' = "failed"
    /\ UNCHANGED <<tools, start, errCh, sigCh, dispatch, resolverVars, now, ttlVars, concVars, cleaned>>

\* sseServer.Start or ServeStdio returns nil: the goroutine ends without a
\* send.
TransportStops ==
    /\ serve = "running"
    /\ serve' = "ended"
    /\ UNCHANGED <<tools, start, errCh, sigCh, dispatch, resolverVars, now, ttlVars, concVars, cleaned>>

\* errCh <- fmt.Errorf("... server error: %w", err), by the goroutine of
\* the transport: the send waits while the channel is full.
SendError ==
    /\ serve = "failed"
    /\ Len(errCh) < 1
    /\ errCh' = Append(errCh, TransportError(start.transport))
    /\ serve' = "ended"
    /\ UNCHANGED <<tools, start, sigCh, dispatch, resolverVars, now, ttlVars, concVars, cleaned>>

\* The tools of the catalogue table.
CatalogueTools ==
    {"check_npm_versions", "check_python_versions", "check_pyproject_versions",
     "check_maven_versions", "check_gradle_versions", "check_go_versions",
     "check_rust_versions", "check_dart_versions", "check_swift_versions",
     "check_composer_versions", "check_github_actions", "check_docker_tags",
     "check_bedrock_models", "get_latest_bedrock_model"}

\* A tools/call request reaches the protocol server while the transport
\* serves: the tool registered under the name is called, or the call fails
\* as one of an unknown tool.
CallTool ==
    /\ serve = "running"
    /\ \E name \in CatalogueTools \cup {"no_such_tool"} :
          dispatch' = [name |-> name, found |-> name \in DOMAIN tools]
    /\ UNCHANGED <<tools, start, serve, errCh, sigCh, resolverVars, now, ttlVars, concVars, cleaned>>

\* ------------------------------------------------------------------------
\* CleanVersion applied to a text, and again to what it returned.

\* The texts are of at most MaxCleanLen bytes among '^', '>', '=', 'v', ' '
\* and '1'.
CleanBytes == {94, 62, 61, 118, 32, 49}

CleanInputs == UNION {[1..n -> CleanBytes] : n \in 0..MaxCleanLen}

\* clean(v).
Clean ==
    /\ session = "clean"
    /\ cleaned.applied = <<>>
    /\ \E v \in CleanInputs : cleaned' = [input |-> v, applied |-> <<CleanVersion(v)>>]
    /\ UNCHANGED <<resolverVars, now, ttlVars, concVars, serverVars>>

\* clean(clean(v)).
CleanAgain ==
    /\ session = "clean"
    /\ Len(cleaned.applied) = 1
    /\ cleaned' = [cleaned EXCEPT !.applied = Append(@, CleanVersion(cleaned.applied[1]))]
    /\ UNCHANGED <<resolverVars, now, ttlVars, concVars, serverVars>>

\* ------------------------------------------------------------------------
\* Properties.

\* The tools whose descriptors are PackageVersion values.
PackageTools ==
    {"check_npm_versions", "check_python_versions", "check_pyproject_versions",
     "check_maven_versions", "check_gradle_versions", "check_go_versions",
     "check_rust_versions", "check_dart_versions", "check_swift_versions",
     "check_composer_versions"}

\* The last call returned a list of dependency descriptors.
Answered ==
    call.tool \in PackageTools \cup {"check_github_actions"} /\ call.err = ""

\* The name of a descriptor; of a GitHub Actions descriptor, owner/repo.
NameOf(d) ==
    IF call.tool = "check_github_actions" THEN d.owner \o Lit("/") \o d.repo ELSE d.name

Sentinels == {Lit("unknown"), Lit("sdk dependency"), Lit("special dependency")}

\* C1: in every resolver that takes a list of dependencies, a dependency
\* whose registry lookup failed is in the result list, as a descriptor with
\* skipped = true, a non-empty skipReason and latestVersion = "unknown"; it is
\* not dropped and the request does not end in an error.
C1_FailurePreserved ==
    (call.tool \in PackageTools /\ call.failed # {}) =>
        /\ call.err = ""
        /\ \A n \in call.failed :
              \E i \in DOMAIN call.results :
                 /\ HasPrefix(call.results[i].name, n)
                 /\ call.results[i].skipped
                 /\ call.results[i].skipReason # ""
                 /\ call.results[i].latestVersion = Lit("unknown")

\* C2: the number of descriptors is the number of distinct input
\* dependencies, less at most the entries the resolver is documented to skip:
\* an entry with a missing or wrongly typed field, or a failed lookup, still
\* has its descriptor.
C2_OnePerDependency ==
    Answered =>
        /\ Len(call.results) <= Cardinality(call.input)
        /\ Len(call.results) >= Cardinality(call.input \ call.exempt)

\* C3: the result list is in ascending order of the lowercased name of its
\* descriptors, whatever the order of supply or of iteration.
C3_SortedByName ==
    Answered =>
        \A i, j \in DOMAIN call.results :
           i < j => ~StringLess(ToLower(NameOf(call.results[j])),
                                ToLower(NameOf(call.results[i])))

\* C4: in every result descriptor, skipped is true exactly when skipReason is
\* a non-empty string.
C4_SkippedIffReason ==
    (Answered /\ call.tool \in PackageTools) =>
        \A i \in DOMAIN call.results :
           call.results[i].skipped <=> call.results[i].skipReason # ""

\* A call that returned a skipped and an unskipped descriptor.
C4_Witness ==
    /\ Answered /\ call.tool \in PackageTools
    /\ \E i, j \in DOMAIN call.results :
          /\ call.results[i].skipped /\ call.results[i].skipReason # ""
          /\ ~call.results[j].skipped /\ call.results[j].skipReason = ""

\* C5: in every descriptor with skipped = true, latestVersion is one of the
\* sentinels "unknown", "sdk dependency", "special dependency" or
\* "replaced by <path>@<ver>": never empty, never a resolved version.
C5_SkippedHasSentinel ==
    (Answered /\ call.tool \in PackageTools) =>
        \A i \in DOMAIN call.results :
           call.results[i].skipped =>
              \/ call.results[i].latestVersion \in Sentinels
              \/ HasPrefix(call.results[i].latestVersion, Lit("replaced by "))

\* C6: a resolver's lookup of a key whose cache entry was stored more than
\* CacheTTL ago is a miss: the registry is fetched again and the stale value
\* is not what the caller gets.
C6_StaleIsMiss ==
    [][\A n \in NpmNames :
          ( /\ now' = now
            /\ NpmKey(n) \in DOMAIN cache
            /\ now - stamps[NpmKey(n)] > CacheTTL
            /\ call'.err = ""
            /\ \E i \in DOMAIN call'.results :
                  /\ call'.results[i].name = n
                  /\ call'.results[i].skipReason # "Package excluded by constraints" )
          => NpmKey(n) \in call'.fetched]_vars

\* C7: for the Cache with expiration, a Get of a key after a Set of it, with
\* no Set of the key in between, returns the value set, and found, exactly
\* when the time since that Set is within the TTL; after more than the TTL
\* it reports the key absent.
C7_GetAfterSet ==
    lastGet.set =>
        /\ lastGet.found <=> lastGet.at - lastGet.setAt <= CacheTTL
        /\ lastGet.found => lastGet.value = lastGet.setValue
        /\ ~lastGet.found => lastGet.value = Nil

\* A Get exactly CacheTTL after the Set, which found the value.
C7_Witness ==
    /\ lastGet.set
    /\ lastGet.at - lastGet.setAt = CacheTTL
    /\ lastGet.found /\ lastGet.value = lastGet.setValue

\* The Stores to a key, in order.
WritesTo(key) == SelectSeq(writes, LAMBDA w : w.key = key)

\* C8 as stated: when two concurrent requests both miss the cache for a key
\* and both fetch, the value stored by the first to write stays the cached
\* value of the key; the later writer does not replace it.
C8_FirstWriterWins ==
    \A n \in NpmNames :
       Len(WritesTo(NpmKey(n))) >= 2 => cache[NpmKey(n)] = WritesTo(NpmKey(n))[1].value

\* C8, amended: when two concurrent requests both miss the cache for a key
\* and both fetch, each Store replaces the cached value: the cached value of
\* the key is the one stored by the last of them to write.
C8_LastWriterWins ==
    \A n \in NpmNames :
       WritesTo(NpmKey(n)) # <<>> =>
          cache[NpmKey(n)] = WritesTo(NpmKey(n))[Len(WritesTo(NpmKey(n)))].value

\* Two requests stored different values under the same key.
C8_Witness ==
    \E n \in NpmNames :
       LET ws == WritesTo(NpmKey(n))
       IN  /\ Len(ws) = 2
           /\ ws[1].by # ws[2].by
           /\ ws[1].value # ws[2].value
           /\ cache[NpmKey(n)] = ws[2].value

\* C9: when the cancellation signal of a request fires while the resolver is
\* processing it, the resolver returns without a result list: what it had
\* accumulated is discarded.
C9_CancelledReturnsNothing ==
    \A r \in DOMAIN running :
       (running[r].pc = "done" /\ running[r].cancelled) => running[r].reply.err # ""

\* Versions in numeric order: by major, then minor, then patch.
NumericLess(a, b) ==
    LET x == Parsed[a]
        y == Parsed[b]
    IN  \/ x.major < y.major
        \/ x.major = y.major /\ x.minor < y.minor
        \/ x.major = y.major /\ x.minor = y.minor /\ x.patch < y.patch

\* C10: in check_npm_versions, for a package with constraint majorVersion = M
\* whose latest registry version has a major greater than M, latestVersion is
\* the highest, in numeric version order, of the registry's versions of
\* major M; when there is none, latestVersion stays the original latest and
\* the result is not skipped.
C10_HighestOfMajor ==
    (Answered /\ call.tool = "check_npm_versions") =>
        \A k \in DOMAIN call.notes :
           LET note == call.notes[k]
               latest == NpmLatest(note.info)
               constrained == note.name \in DOMAIN note.constraints
                                 /\ note.constraints[note.name].hasMajor
               M == note.constraints[note.name].major
               ofMajor == {v \in note.info.versions : ~Parsed[v].err /\ Parsed[v].major = M}
           IN  (constrained /\ ~Parsed[latest].err /\ Parsed[latest].major > M) =>
                  \E i \in DOMAIN call.results :
                     /\ call.results[i].name = note.name
                     /\ ~call.results[i].skipped
                     /\ IF ofMajor = {} THEN call.results[i].latestVersion = latest
                        ELSE /\ call.results[i].latestVersion \in ofMajor
                             /\ \A v \in ofMajor :
                                   ~NumericLess(call.results[i].latestVersion, v)

DockerAnswered == call.tool = "check_docker_tags" /\ call.err = ""

\* C12: for check_docker_tags with a non-empty filterTags, whatever the
\* registry, every tag of the output matches at least one of the patterns of
\* filterTags.
C12_TagsMatchFilter ==
    (DockerAnswered /\ call.request.filterTags # <<>>) =>
        \A i \in DOMAIN call.results :
           \E k \in DOMAIN call.request.filterTags :
              LET pattern == call.request.filterTags[k]
              IN  /\ pattern # Absent
                  /\ Compiles(pattern)
                  /\ MatchString(pattern, call.results[i].tag)

\* C13: for check_docker_tags, whatever the registry, when the caller
\* supplies `limit` (0 and values below the number of upstream tags included)
\* the output has at most `limit` tags.
C13_AtMostLimit ==
    (DockerAnswered /\ call.request.limit.given) =>
        Len(call.results) <= call.request.limit.value

\* C14: whatever requests came before, the entries of a response for a
\* Docker Hub image carry a digest exactly when this request set
\* includeDigest = true and Docker Hub supplied an image for the tag.
C14_DigestAsRequested ==
    (DockerAnswered /\ DockerRegistry(call.request.registry) = Lit("dockerhub")) =>
        \A i \in DOMAIN call.results :
           call.results[i].digest # Nil <=>
              /\ call.request.includeDigest
              /\ \E k \in DOMAIN DockerHubResults :
                    /\ DockerHubResults[k].name = call.results[i].tag
                    /\ DockerHubResults[k].images # <<>>

\* The errors of a check_docker_tags request whose arguments are refused:
\* the request of the last call, with `badRegistry` telling that its
\* registry is not an accepted one, failed with the error of its first
\* fault, returned no tags and issued no registry request.
RefusedAsInvalid(badRegistry) ==
    LET request == call.request
        noImage == request.image \in {Absent, Lit("")}
        noCustom == /\ request.registry = Lit("custom")
                    /\ request.customRegistry \in {Absent, Lit("")}
    IN  (noImage \/ badRegistry \/ noCustom) =>
           /\ call.err = IF noImage THEN "missing required parameter: image"
                         ELSE IF badRegistry THEN "invalid registry: %s"
                         ELSE "missing required parameter for custom registry: customRegistry"
           /\ call.results = <<>>
           /\ call.fetched = {}

SwiftReleased ==
    {TrimPrefix(SwiftReleases[k].tag_name, Lit("v")) :
        k \in {j \in DOMAIN SwiftReleases :
                  ~SwiftReleases[j].draft /\ ~SwiftReleases[j].prerelease}}

\* C16: for check_swift_versions, when a dependency has a majorVersion
\* constraint M and the latest release is of a major above M, its
\* latestVersion is the highest released version of major M, a version that
\* exists among the releases of the package.
C16_HighestReleaseOfMajor ==
    (Answered /\ call.tool = "check_swift_versions") =>
        \A i \in DOMAIN call.results :
           LET r == call.results[i]
               M == call.constraints[r.name].major
               ofMajor == {v \in SwiftReleased : ParseVersion(v).major = M}
           IN  (/\ ~r.skipped
                /\ r.name \in DOMAIN call.constraints
                /\ call.constraints[r.name].hasMajor
                /\ ParseVersion(SwiftLatestRelease(SwiftReleases, Lit(""))).major > M
                /\ ofMajor # {})
               => /\ r.latestVersion \in ofMajor
                  /\ \A v \in ofMajor : CompareVersions(r.latestVersion, v).result >= 0

\* The releases of a /releases response that are neither draft nor
\* prerelease, by position.
Qualifying(releases) ==
    {j \in DOMAIN releases : ~releases[j].draft /\ ~releases[j].prerelease}

\* The version the answers of GitHub in a note stand for: the tag of the
\* first qualifying release, else the first tag, else Absent.
NoteVersion(note) ==
    IF Qualifying(note.releases) # {}
    THEN note.releases[Min(Qualifying(note.releases))].tag_name
    ELSE IF ~note.tagsErr /\ note.tags # <<>> THEN note.tags[1]
    ELSE Absent

\* The results of the call for the repository of a note.
NoteResults(note) ==
    {i \in DOMAIN call.results :
        call.results[i].owner = note.owner /\ call.results[i].repo = note.repo}

\* C17: for check_github_actions, the latestVersion of an action is the tag
\* of the first release, in the order of /releases, with draft = false and
\* prerelease = false; /tags is requested only when no release qualifies,
\* and then latestVersion is the first tag returned.
C17_FirstQualifyingRelease ==
    (Answered /\ call.tool = "check_github_actions") =>
        /\ \A k \in DOMAIN call.notes :
              LET note == call.notes[k]
              IN  /\ note.tagsAsked <=> Qualifying(note.releases) = {}
                  /\ NoteVersion(note) # Absent =>
                        \E i \in NoteResults(note) :
                           call.results[i].latestVersion = NoteVersion(note)
        /\ \A i \in DOMAIN call.results :
              LET r == call.results[i]
                  mine == {k \in DOMAIN call.notes : i \in NoteResults(call.notes[k])}
              IN  (mine # {} /\ r.latestVersion # Lit("unknown")) =>
                     \E k \in mine : r.latestVersion = NoteVersion(call.notes[k])

\* One call resolved an action from releases whose first qualifying release
\* comes after a draft and before a later one, and another action, without a
\* qualifying release, from the first tag.
C17_Witness ==
    /\ Answered
    /\ call.tool = "check_github_actions"
    /\ \E k \in DOMAIN call.notes :
          LET note == call.notes[k]
          IN  /\ Len(note.releases) = 3
              /\ ~note.tagsAsked
              /\ \E i \in NoteResults(note) : call.results[i].latestVersion = Lit("v1")
    /\ \E k \in DOMAIN call.notes :
          LET note == call.notes[k]
          IN  /\ note.tagsAsked
              /\ \E i \in NoteResults(note) : call.results[i].latestVersion = Lit("v4")

\* C18: for check_go_versions with a {module, require, replace} object, a
\* require whose path is the `old` of a replace entry (one with an `old` and
\* a `new`; the first such entry when there are several) is returned with
\* skipped = true, latestVersion = "replaced by <new>@<version>",
\* skipReason = "Module is replaced" and its currentVersion unchanged.
C18_ReplacedIsSkipped ==
    (Answered /\ call.tool = "check_go_versions" /\ call.request.form = "complex") =>
        \A k \in DOMAIN call.request.require :
           LET req == call.request.require[k]
               replace == call.request.replace
               hits == {j \in DOMAIN replace :
                          replace[j].old = req.path /\ replace[j].new # Absent}
               rep == replace[Min(hits)]
               named == {i \in DOMAIN call.results : call.results[i].name = req.path}
           IN  (req.path # Absent /\ hits # {}) =>
                  /\ \E i \in named : call.results[i].currentVersion = OrEmpty(req.version)
                  /\ \A i \in named :
                        /\ call.results[i].skipped
                        /\ call.results[i].skipReason = "Module is replaced"
                        /\ call.results[i].latestVersion =
                              Lit("replaced by ") \o rep.new \o Lit("@") \o OrEmpty(rep.version)

\* A go.mod object with three replace entries for "a", the first without a
\* `new`, was answered with "a" replaced by the second and "B" resolved.
C18_Witness ==
    /\ Answered
    /\ call.tool = "check_go_versions"
    /\ call.request.form = "complex"
    /\ Len(call.request.replace) = 3
    /\ \E i, j \in DOMAIN call.results :
          /\ call.results[i].name = Lit("a")
          /\ call.results[i].latestVersion = Lit("replaced by y@")
          /\ call.results[j].name = Lit("B")
          /\ ~call.results[j].skipped

\* The descriptor of a key of the dependencies map declares a git or a path
\* source.
DeclaresSource(value) ==
    value.kind = "object" /\ (value.path # Absent \/ value.git # Absent)

\* C19: for check_dart_versions, a dependency that is an SDK reference (named
\* flutter or dart, or prefixed flutter: or dart:) or an environment
\* reference (prefixed sdk:) is returned skipped with latestVersion
\* "sdk dependency"; one whose descriptor declares a git or path source is
\* returned skipped with latestVersion "special dependency"; every other
\* dependency is resolved from the registry.
C19_SdkAndSpecialSkipped ==
    (Answered /\ call.tool = "check_dart_versions" /\ call.request.form = "map") =>
        \A n \in DOMAIN call.request.deps :
           LET value == call.request.deps[n]
               named == {i \in DOMAIN call.results : call.results[i].name = n}
           IN  value.kind # "other" =>
                  /\ named # {}
                  /\ \A i \in named :
                        LET r == call.results[i]
                        IN  IF DartIsSDK(n) \/ DartIsEnv(n)
                            THEN r.skipped /\ r.latestVersion = Lit("sdk dependency")
                            ELSE IF DeclaresSource(value)
                            THEN r.skipped /\ r.latestVersion = Lit("special dependency")
                            ELSE /\ r.latestVersion \notin
                                       {Lit("sdk dependency"), Lit("special dependency")}
                                 /\ r.skipped <=> n \in call.failed

\* The line is blank, or its first character that is not white space is '#'.
BlankOrComment(line) ==
    LET inks == {i \in DOMAIN line : ~IsSpace(line[i])}
    IN  inks = {} \/ line[Min(inks)] = 35

\* The name of the descriptor a requirements line stands for when a line
\* that does not match the requirement pattern is named with the text of the
\* line as it was sent.
OriginalLineName(line) ==
    IF ParseRequirement(TrimSpace(line)).err THEN line
    ELSE ParseRequirement(TrimSpace(line)).name

\* The same, with the white space around the text of the line removed.
LineName(line) ==
    IF ParseRequirement(TrimSpace(line)).err THEN TrimSpace(line)
    ELSE ParseRequirement(TrimSpace(line)).name

\* C20, as stated: for check_python_versions, a blank line or a '#' line
\* yields no descriptor; a line that does not match the requirement pattern
\* yields one skipped descriptor named with the original text of the line;
\* every other line yields exactly one descriptor, named after the parsed
\* package.
C20_NamedWithOriginalLine ==
    (Answered /\ call.tool = "check_python_versions") =>
        LET reqs == call.request
            lines == {k \in DOMAIN reqs : ~BlankOrComment(reqs[k])}
        IN  /\ Len(call.results) = Cardinality(lines)
            /\ \A k \in lines :
                  LET named == {i \in DOMAIN call.results :
                                  call.results[i].name = OriginalLineName(reqs[k])}
                      same == {j \in lines :
                                 OriginalLineName(reqs[j]) = OriginalLineName(reqs[k])}
                  IN  /\ Cardinality(named) = Cardinality(same)
                      /\ ParseRequirement(TrimSpace(reqs[k])).err =>
                            \A i \in named : call.results[i].skipped

\* C20, amended: the same, with the descriptor of a line that does not match
\* the requirement pattern named with the text of the line without the white
\* space around it.
C20_OneDescriptorPerLine ==
    (Answered /\ call.tool = "check_python_versions") =>
        LET reqs == call.request
            lines == {k \in DOMAIN reqs : ~BlankOrComment(reqs[k])}
        IN  /\ Len(call.results) = Cardinality(lines)
            /\ \A k \in lines :
                  LET named == {i \in DOMAIN call.results :
                                  call.results[i].name = LineName(reqs[k])}
                      same == {j \in lines : LineName(reqs[j]) = LineName(reqs[k])}
                  IN  /\ Cardinality(named) = Cardinality(same)
                      /\ ParseRequirement(TrimSpace(reqs[k])).err =>
                            \A i \in named : call.results[i].skipped

\* A line that does not match the pattern, with white space around it, and a
\* requirement were answered with the skipped descriptor "a b!" and the
\* descriptor of the package B.
C20_Witness ==
    /\ Answered
    /\ call.tool = "check_python_versions"
    /\ call.request = <<Lit(" a b! "), Lit("B==1.2.0")>>
    /\ Len(call.results) = 2
    /\ \E i, j \in DOMAIN call.results :
          /\ call.results[i].name = Lit("a b!")
          /\ call.results[i].skipped
          /\ call.results[j].name = Lit("B")

\* The last call was check_composer_versions and returned a list.
ComposerAnswered == call.tool = "check_composer_versions" /\ call.err = ""

\* The name is not of the shape <vendor>/<name>.
Misshapen(name) == Len(Split(name, 47)) # 2

\* The dependency d of the request has exactly one descriptor, and it is
\* skipped with "Invalid package name format".
SkippedAsInvalid(d) ==
    /\ Cardinality({i \in DOMAIN call.results : call.results[i].name = d.name}) = 1
    /\ \A i \in DOMAIN call.results :
          call.results[i].name = d.name =>
             /\ call.results[i].skipped
             /\ call.results[i].skipReason = "Invalid package name format"

C22_OnlyLaravelReported ==
    ComposerAnswered =>
        \A d \in call.input :
           (d.version # Absent /\ ~Misshapen(d.name)) =>
              (IsLaravelPackage(d.name)
                 <=> \E i \in DOMAIN call.results : call.results[i].name = d.name)

\* C23: after Initialize the tools registered with the protocol server hold
\* every name of the catalogue table, and a call of any of them finds its
\* tool.
C23_CatalogueRegistered ==
    start.pc # "idle" =>
        /\ \A name \in CatalogueTools : name \in DOMAIN tools
        /\ dispatch.name \in CatalogueTools => dispatch.found

\* C24: for every registered tool and every property of its input schema
\* whose type is "array", the property declares items, items is an object
\* and items.type is a non-empty string.
C24_ArrayItemsTyped ==
    \A name \in DOMAIN tools :
       \A property \in DOMAIN tools[name] :
          tools[name][property].type = "array" =>
             /\ tools[name][property].items.declared
             /\ tools[name][property].items.object
             /\ tools[name][property].items.type # ""

\* After Initialize: the six tools with an array property are registered,
\* filterTags of check_docker_tags with items of type string.
C24_Witness ==
    /\ start.pc # "idle"
    /\ Cardinality({name \in DOMAIN tools :
                       \E property \in DOMAIN tools[name] :
                          tools[name][property].type = "array"}) = 6
    /\ tools["check_docker_tags"]["filterTags"].items.type = "string"

\* CleanVersion was applied to a text and then to its own result.
CleanedTwice == Len(cleaned.applied) = 2

\* The text begins with one of the prefixes CleanVersion removes.
Prefixed(v) == \E i \in 1..Len(CleanPrefixes) : HasPrefix(v, CleanPrefixes[i])

\* C25 as stated: for every text v, clean(clean(v)) = clean(v).
C25_Idempotent ==
    CleanedTwice => cleaned.applied[2] = cleaned.applied[1]

\* C25: for every text v of which clean(v) begins with none of the
\* prefixes (v carries at most one), clean(clean(v)) = clean(v).
C25_IdempotentOnOnePrefix ==
    (CleanedTwice /\ ~Prefixed(cleaned.applied[1])) =>
        cleaned.applied[2] = cleaned.applied[1]

\* "^ 1" is cleaned to "1", and "1" to itself.
C25_Witness ==
    /\ CleanedTwice
    /\ cleaned.input = <<94, 32, 49>>
    /\ cleaned.applied = << <<49>>, <<49>> >>

\* The server of the transport returned an error: the goroutine is about to
\* send it on errCh, or has sent it.
TransportFailed ==
    \/ serve = "failed"
    \/ \E i \in 1..Len(errCh) : errCh[i] = TransportError(start.transport)

\* C26: once the server of the transport has stopped with an error, Start
\* returns that error, whether or not a signal arrives.
C26_TransportErrorReturned ==
    TransportFailed ~>
        (start.pc = "returned" /\ start.ret = TransportError(start.transport))

\* C27: once SIGINT or SIGTERM is delivered to the running server, Start
\* eventually returns, the error of the transport being on errCh already or
\* not.
C27_SignalledStartReturns ==
    (start.pc # "idle" /\ sigCh # <<>>) ~> (start.pc = "returned")

\* The version the entry of key k gives a request: the one stored, or, of
\* npm, the one selected from the stored document.
Selected(k) == IF k[1] = "npm" THEN NpmLatest(cache[k]) ELSE cache[k]

\* The keys of the resolvers that select one version (Docker's hold tag lists).
VersionKeys == {k \in DOMAIN cache : k[1] \notin {"dockerhub", "ghcr"}}

\* C28: an entry is stored only once the fetch, the decode and the selection
\* of a version for its key have succeeded: every key the call fetched and
\* stored gives a version, and a lookup that found none stored nothing.
C28_StoredAfterSelection ==
    \A k \in call.fetched \cap VersionKeys : Selected(k) # <<>>

\* The skip reasons of the descriptors added without a lookup.
SkippedWithoutLookup ==
    {"Package excluded by constraints", "Module is replaced",
     "SDK or environment dependency, version is managed by the SDK",
     "Git or path dependency, not a version constraint",
     "Invalid package name format"}

\* The cache namespace of the resolvers that skip without a lookup.
Namespace ==
    [check_npm_versions |-> "npm", check_swift_versions |-> "swift",
     check_composer_versions |-> "packagist", check_go_versions |-> "go",
     check_dart_versions |-> "dart"]

\* The descriptor was added without a lookup.
Unlooked(r) == r.skipped /\ r.skipReason \in SkippedWithoutLookup

\* C29: a dependency skipped without a lookup (excluded by its constraint,
\* a replaced Go module, a Dart SDK, git or path dependency, a Composer name
\* of invalid shape) causes no HTTP request and leaves the entry of its key
\* as the cache had it, absent or present with the same value.  A name the
\* request carries twice is skipped when each of its descriptors is.
C29_SkippedLeavesCache ==
    [][\A i \in DOMAIN call'.results :
          LET r == call'.results[i]
              k == <<Namespace[call'.tool], r.name>>
              named == {j \in DOMAIN call'.results : call'.results[j].name = r.name}
          IN  (/\ call'.tool \in DOMAIN Namespace
               /\ \A j \in named : Unlooked(call'.results[j])) =>
                 /\ k \notin call'.fetched
                 /\ k \in DOMAIN cache' => (k \in DOMAIN cache /\ cache'[k] = cache[k])]_vars

\* A go.mod object was answered with "a" replaced and "B" fetched and
\* stored.
C29_Witness ==
    /\ Answered
    /\ call.tool = "check_go_versions"
    /\ \E i \in DOMAIN call.results :
          /\ call.results[i].name = Lit("a")
          /\ call.results[i].skipReason = "Module is replaced"
    /\ GoKey(Lit("a")) \notin DOMAIN cache
    /\ GoKey(Lit("B")) \in call.fetched
    /\ GoKey(Lit("B")) \in DOMAIN cache

\* The requests of one package follow the procedure: a prefix of the three
\* endpoints in their order, each but the last without an answer, ending at
\* the first that answers; the search when and only when none of the three
\* answered; after the search the package URL once more, and nothing after
\* it, only when Matches(result, name) holds of a result of the search; and a
\* package whose last request went unanswered is reported as failed.
FollowsProcedure(note, Matches(_, _)) ==
    LET requests == note.requests
        direct == {i \in DOMAIN requests : i <= 3}
        n == Cardinality(direct)
        unanswered == \A i \in direct : ~requests[i].ok
    IN  /\ n >= 1
        /\ \A i \in direct : requests[i].url = Endpoints[i]
        /\ \A i \in direct : requests[i].ok => i = n
        /\ Len(requests) > n <=> (n = 3 /\ unanswered)
        /\ Len(requests) > n => requests[n + 1].url = SearchURL
        /\ Len(requests) <= 5
        /\ Len(requests) = 5 =>
              /\ requests[5].url = Endpoints[1]
              /\ requests[4].ok
              /\ \E i \in DOMAIN note.found : Matches(note.found[i], note.name)
        /\ ~requests[Len(requests)].ok => note.name \in call.failed

\* The last call was check_composer_versions and returned a result.
ComposerLookedUp == Answered /\ call.tool = "check_composer_versions"

SameName(result, name) == result = name

Fresh ==
    /\ cache = EmptyMap
    /\ stamps = EmptyMap
    /\ call = Refused("none", "")
    /\ now = 0
    /\ pkgCache = NewCache(CacheTTL)
    /\ lastSet = EmptyMap
    /\ lastGet = [key |-> "", at |-> 0, value |-> Nil, found |-> FALSE,
                  set |-> FALSE, setValue |-> Nil, setAt |-> 0]
    /\ running = EmptyMap
    /\ writes = <<>>
    /\ tools = NewMCPServer
    /\ start = NotStarted
    /\ serve = "none"
    /\ errCh = <<>>
    /\ sigCh = <<>>
    /\ dispatch = [name |-> "", found |-> FALSE]
    /\ cleaned = [input |-> <<>>, applied |-> <<>>]

Init ==
    /\ session \in Sessions
    /\ Fresh

\* The closure registered for a tool hands the handler's return to the
\* protocol server, which writes it to the client: no call is then in
\* progress and the cache is as the handler left it.
Reply ==
    /\ call.tool # "none"
    /\ call' = Refused("none", "")
    /\ UNCHANGED <<session, cache, stamps, now, ttlVars, concVars, serverVars, cleaned>>

\* One call of the session's tool at a time: a call is served, and its reply
\* is written before the next one is taken.
Next ==
    \/ NpmGetLatestVersion
    \/ GetLatestVersionFromRequirements
    \/ GetLatestVersionFromPyProject
    \/ GetLatestVersionFromMaven
    \/ GetLatestVersionFromGradle
    \/ GoGetLatestVersions
    \/ RustGetLatestVersions
    \/ DartGetLatestVersions
    \/ SwiftGetLatestVersions
    \/ ComposerGetLatestVersion
    \/ ActionsGetLatestVersion
    \/ DockerGetLatestVersion
    \/ Reply

Spec == Init /\ [][Next]_vars

\* The npm tool as the hours pass.
StaleInit ==
    /\ session = "npm"
    /\ Fresh

StaleNext ==
    \/ NpmGetLatestVersion
    \/ Reply
    \/ Tick

StaleSpec == StaleInit /\ [][StaleNext]_vars

\* The Cache with expiration as the hours pass.
TtlInit ==
    /\ session = "cache"
    /\ Fresh

TtlNext ==
    \/ CacheSet
    \/ CacheGet
    \/ Tick

TtlSpec == TtlInit /\ [][TtlNext]_vars

\* Two npm requests in flight at once.
ConcInit ==
    /\ session = "npm-concurrent"
    /\ Fresh

ConcNext ==
    \E r \in Requests :
       \/ Begin(r)
       \/ ConcLoad(r)
       \/ ConcFetch(r)
       \/ ConcStore(r)
       \/ ConcReturn(r)
       \/ Cancel(r)

ConcSpec == ConcInit /\ [][ConcNext]_vars

\* CleanVersion on every text of the bound.
CleanInit ==
    /\ session = "clean"
    /\ Fresh

CleanNext ==
    \/ Clean
    \/ CleanAgain

CleanSpec == CleanInit /\ [][CleanNext]_vars

\* The server from the call of Start on.
ServerInit ==
    /\ session = "server"
    /\ Fresh

ServerNext ==
    \/ Start
    \/ Signal
    \/ AwaitSignal
    \/ SendNil
    \/ Return
    \/ TransportFails
    \/ TransportStops
    \/ SendError
    \/ CallTool

\* A goroutine that can take its step takes it; signals, the end of the
\* transport and the calls of clients come as they come.
ServerSpec ==
    /\ ServerInit
    /\ [][ServerNext]_vars
    /\ WF_vars(AwaitSignal)
    /\ WF_vars(SendNil)
    /\ WF_vars(Return)
    /\ WF_vars(SendError)

====
